---- MODULE Spec2Model ----
(***************************************************************************)
(* A state-machine model of the per-guild playback engine of the Discord   *)
(* music bot: MusicPlayer (music_player.py), the command handlers and the  *)
(* player registry (main.py), and the resolver interface (ytdl_source.py). *)
(*                                                                         *)
(* Everything runs on one asyncio event loop, so a handler runs atomically *)
(* from one await that really suspends to the next; each action below is   *)
(* one such run.  discord.py's VoiceClient and yt-dlp are the environment. *)
(***************************************************************************)
EXTENDS Integers, Sequences, FiniteSets, TLC

\* ---------------------------------------------------------------- bounds
MaxTitle == 2       \* distinct tracks the resolver can return
MaxQueue == 3       \* tracks a play command may bring the session up to
MaxPlayers == 3     \* MusicPlayer instances constructed in one behaviour
MaxVC == 3          \* VoiceClient objects constructed in one behaviour
MaxDestroy == 2     \* destroy() invocations in one behaviour
MaxPlay == 2        \* play commands in flight at once
MaxFetch == 2       \* _load_next_playlist_batch tasks alive at once
PlaylistLen == 3    \* entries of the playlist the resolver serves
BatchSize == 2      \* PLAYLIST_BATCH_SIZE scaled down to the playlist bound
MaxCb == 2          \* _playback_finished callbacks posted and not yet run
VolumeSlack == 2    \* how far outside [0, MAX_VOLUME] the volumes asked for go

\* ------------------------------------------------------ program constants
LAZY_LOAD_THRESHOLD == 3
\* Volumes are counted in hundredths, the unit of the volume command (percent).
DEFAULT_VOLUME == 50    \* 0.5
MAX_VOLUME == 200       \* 2.0

Titles == 1 .. MaxTitle
Players == 1 .. MaxPlayers
VCs == 1 .. MaxVC
Destroys == 1 .. MaxDestroy
Plays == 1 .. MaxPlay
Fetches == 1 .. MaxFetch

NoUrl == 0          \* the empty string used where a stream URL is missing
NoVC == 0           \* no voice client
NoSong == [stream |-> 0, title |-> 0, webpage_url |-> 0]   \* Python None

VARIABLES
    music_players,  \* bot.music_players[guild.id]: a player, or 0 when absent
    pl,             \* the MusicPlayer instances, by construction order
    vc,             \* the VoiceClient objects, by construction order
    guild_vc,       \* discord.py's own voice client of the guild, or 0
    members,        \* whether a non-bot member is in the voice channel
    ft,             \* the _load_next_playlist_batch tasks
    dt,             \* the destroy() invocations
    cmd,            \* the play commands
    rm,             \* the remove command between its defer and its edit
    vsu,            \* a voice-state update "the bot left" not yet dispatched
    ev              \* the last operation and what it reported (observation)

vars == <<music_players, pl, vc, guild_vc, members, ft, dt, cmd, rm, vsu, ev>>

\* ------------------------------------------------------------ track data
\* What YTDLSource._process_entry returns for track t.
Entry(t) == [url |-> t, title |-> t, webpage_url |-> t]

\* utils.create_ffmpeg_source: the FFmpegPCMAudio streams entry["url"]; title and
\* webpage_url are set as attributes.  No attribute "url" is set on the object.
create_ffmpeg_source(entry) ==
    [stream |-> entry.url, title |-> entry.title, webpage_url |-> entry.webpage_url]

\* getattr(song, 'url', '') and hasattr(song, 'url'): the source has no such attribute.
SongUrl(song) == NoUrl

\* The dict _get_next_song rebuilds from self.current under RepeatMode.ONE.
CurrentAsEntry(song) ==
    [url |-> SongUrl(song), title |-> song.title, webpage_url |-> song.webpage_url]

\* The dict _get_next_song appends to self.history under RepeatMode.ALL.
HistoryEntry(song) ==
    [url |-> SongUrl(song), title |-> song.title, webpage_url |-> song.webpage_url]

RECURSIVE SeqMap(_, _)
SeqMap(Op(_), s) == IF s = <<>> THEN <<>> ELSE <<Op(Head(s))>> \o SeqMap(Op, Tail(s))

TitleOf(x) == x.title
TitlesOf(s) == SeqMap(TitleOf, s)

\* list.pop(i) for 0 <= i < len: the Python list without the item at index i.
ListPop(s, i) == [j \in 1 .. (Len(s) - 1) |-> IF j <= i THEN s[j] ELSE s[j + 1]]
\* list[i] for 0 <= i < len.
ListAt(s, i) == s[i + 1]

\* All orderings random.shuffle can leave a list in.
Perms(s) ==
    { [i \in 1 .. Len(s) |-> s[f[i]]] :
        f \in { g \in [1 .. Len(s) -> 1 .. Len(s)] :
                  \A i, j \in 1 .. Len(s) : i # j => g[i] # g[j] } }

\* ------------------------------------------------------- initial objects
\* MusicPlayer.__init__, before the instance exists (exists = FALSE) and after.
BlankPlayer ==
    [ exists |-> FALSE, voice_client |-> 0,
      queue |-> <<>>, history |-> <<>>, next |-> FALSE, current |-> NoSong,
      paused |-> FALSE, repeat_mode |-> "OFF", volume |-> DEFAULT_VOLUME,
      current_playlist_url |-> 0, next_playlist_index |-> 1,
      loading_next_batch |-> FALSE,
      player_task |-> "none", cancel |-> FALSE,
      cb |-> 0, set_pending |-> FALSE,
      fifo |-> <<>>, skipMark |-> FALSE ]

NewPlayer(v) == [BlankPlayer EXCEPT !.exists = TRUE, !.voice_client = v, !.player_task = "top"]

BlankVC == [conn |-> "none", play |-> "idle", cbto |-> 0]
FreeFetch == [st |-> "free", p |-> 0, url |-> 0, idx |-> 0]
FreeDestroy == [st |-> "free", p |-> 0, v |-> 0, notify |-> FALSE, caller |-> "none",
                overlap |-> FALSE, did |-> {}]
FreePlay == [st |-> "free", p |-> 0, v |-> 0]

\* What the last step reported: the operation, its argument and its result; Quiet
\* for a step that reports nothing the properties below look at.
Ev(op, a, r) == [op |-> op, a |-> a, r |-> r]
Quiet == Ev("none", 0, 0)

\* ------------------------------------------------------ VoiceClient reads
is_connected(v) == v # 0 /\ vc[v].conn = "connected"
is_playing(v) == v # 0 /\ vc[v].play = "playing"
is_paused(v) == v # 0 /\ vc[v].play = "paused"

\* discord.py holds at most one voice client per guild.  The end of a disconnect
\* of client v: the guild's voice client is forgotten when it is v.
Cleanup(v) == IF guild_vc = v THEN NoVC ELSE guild_vc

\* A connect that never refuses.
CanConnectAlways == TRUE

\* channel.connect() goes ahead only when the guild has no voice client; else it
\* raises ClientException, which get_player reports before returning None.
CanConnect == guild_vc = NoVC

\* VoiceClient.stop(): the audio thread ends and calls `after`, which posts
\* _playback_finished of the player that started the stream to the event loop.
StopCallbacks(plf, v) ==
    IF v # 0 /\ vc[v].play # "idle"
    THEN [plf EXCEPT ![vc[v].cbto].cb = @ + 1]
    ELSE plf

StoppedVC(vcf, v) == IF v # 0 THEN [vcf EXCEPT ![v].play = "idle"] ELSE vcf

\* ------------------------------------------------------------- resolver
\* Title of the entry at position i of the playlist.
PlaylistTitle(i) == ((i - 1) % MaxTitle) + 1

\* YTDLSource.create_source for the window [start, start + BatchSize - 1] of the
\* playlist: the entries of the window that exist, minus those yt-dlp could not
\* process (`drop`, chosen by the environment), in playlist order.
RECURSIVE WindowEntries(_, _, _)
WindowEntries(from, to, drop) ==
    IF from > to \/ from > PlaylistLen THEN <<>>
    ELSE (IF from \in drop THEN <<>> ELSE <<Entry(PlaylistTitle(from))>>)
         \o WindowEntries(from + 1, to, drop)

BatchEntries(start, drop) == WindowEntries(start, start + BatchSize - 1, drop)
Window(start) == start .. (start + BatchSize - 1)

\* --------------------------------------------------------- MusicPlayer
\* MusicPlayer.get_queue_items: list(self.queue._queue).
get_queue_items(P) == P.queue

\* asyncio.Queue.put / put_nowait on the unbounded queue: append at the tail.
QueuePut(P, song) == [P EXCEPT !.queue = Append(@, song), !.fifo = Append(@, song)]

RECURSIVE QueuePutAll(_, _)
QueuePutAll(P, songs) ==
    IF songs = <<>> THEN P ELSE QueuePutAll(QueuePut(P, Head(songs)), Tail(songs))

\* A queue that hands out its newest item first.
QueueGetNewest(q) == <<q[Len(q)], SubSeq(q, 1, Len(q) - 1)>>

\* asyncio.Queue.get / get_nowait on a non-empty queue: <<the item taken, the
\* queue left>>; the item is the head of the deque (popleft).
QueueGet(q) == <<Head(q), Tail(q)>>

\* A clear_queue that leaves the playlist cursor in place.
clear_queue_keep_cursor(P) ==
    [P EXCEPT !.queue = <<>>, !.history = <<>>, !.loading_next_batch = FALSE, !.fifo = <<>>]

\* MusicPlayer.clear_queue.
clear_queue(P) ==
    [P EXCEPT !.queue = <<>>, !.history = <<>>, !.current_playlist_url = 0,
              !.next_playlist_index = 1, !.loading_next_batch = FALSE, !.fifo = <<>>]

\* A set_volume that clamps from above only.
set_volume_no_floor(P, volume) ==
    [P EXCEPT !.volume = IF volume < MAX_VOLUME THEN volume ELSE MAX_VOLUME]

\* MusicPlayer.set_volume: self.volume = max(0.0, min(volume, MAX_VOLUME)); the
\* value returned is the volume field of the result.
set_volume(P, volume) ==
    LET capped == IF MAX_VOLUME < volume THEN MAX_VOLUME ELSE volume   \* min(volume, MAX_VOLUME)
    IN  [P EXCEPT !.volume = IF capped > 0 THEN capped ELSE 0]        \* max(0.0, capped)

\* A toggle_repeat that goes from ALL back to OFF.
toggle_repeat_two(mode) ==
    IF mode = "OFF" THEN "ALL" ELSE "OFF"

\* MusicPlayer.toggle_repeat: the mode stored, which is also the mode returned.
toggle_repeat(mode) ==
    IF mode = "OFF" THEN "ALL" ELSE IF mode = "ALL" THEN "ONE" ELSE "OFF"

\* `while not queue.empty(): queue.get_nowait()`: the queue drained.
Drained(P) == [P EXCEPT !.queue = <<>>, !.fifo = <<>>]

\* A shuffle that loses the item that ends up first.
shuffle_queue_lossy(P) ==
    LET items == get_queue_items(P)
    IN  IF Len(items) < 2 THEN { <<P, 0>> }
        ELSE { <<QueuePutAll(Drained(P), Tail(shuffled)), Len(items)>> : shuffled \in Perms(items) }

\* The outcomes of MusicPlayer.shuffle_queue: <<player after, returned count>>, one
\* per ordering random.shuffle can produce; the queue is drained and refilled.
shuffle_queue(P) ==
    LET items == get_queue_items(P)
    IN  IF Len(items) < 2 THEN { <<P, 0>> }
        ELSE { <<QueuePutAll(Drained(P), shuffled), Len(items)>> : shuffled \in Perms(items) }

\* A removal that always takes the first item.
remove_item_first(P, position) ==
    LET queue_list == get_queue_items(P)
    IN  <<QueuePutAll(Drained(P), ListPop(queue_list, 0)), ListAt(queue_list, 0)>>

\* A removal that refills the queue from a list that misses its last item too.
remove_item_short(P, position) ==
    LET queue_list == get_queue_items(P)
        removed == ListAt(queue_list, position - 1)
        kept == ListPop(queue_list, position - 1)
    IN  <<QueuePutAll(Drained(P), SubSeq(kept, 1, Len(kept) - 1)), removed>>

\* The remove command past its bounds checks: queue_list.pop(position - 1), the
\* queue drained and refilled from queue_list: <<player after, removed item>>.
remove_item(P, position) ==
    LET queue_list == get_queue_items(P)
        removed == ListAt(queue_list, position - 1)
    IN  <<QueuePutAll(Drained(P), ListPop(queue_list, position - 1)), removed>>

\* A remove command that takes the last item when the position is past the end.
remove_clamped(P, position) ==
    LET queue_list == get_queue_items(P)
    IN  IF queue_list = <<>>
        THEN <<P, 0>>
        ELSE IF position > Len(queue_list)
        THEN <<remove_item(P, Len(queue_list))[1], remove_item(P, Len(queue_list))[2].title>>
        ELSE <<remove_item(P, position)[1], remove_item(P, position)[2].title>>

\* The remove command after its defer: <<player after, title reported as removed>>,
\* the title 0 when the command answers with an error embed instead.
remove(P, position) ==
    LET queue_list == get_queue_items(P)
    IN  IF queue_list = <<>> \/ position > Len(queue_list)
        THEN <<P, 0>>
        ELSE <<remove_item(P, position)[1], remove_item(P, position)[2].title>>

\* _get_next_song, RepeatMode.ONE branch: the source rebuilt from self.current.
ReplaySource(P) == create_ffmpeg_source(CurrentAsEntry(P.current))

\* A refill that walks the history backwards.
RECURSIVE RefillSourcesReversed(_)
RefillSourcesReversed(history) ==
    IF history = <<>> THEN <<>>
    ELSE RefillSourcesReversed(Tail(history)) \o <<create_ffmpeg_source(Head(history))>>

\* _get_next_song, RepeatMode.ALL branch: the queue rebuilt from self.history.
RefillSources(history) == SeqMap(create_ffmpeg_source, history)

Refill(P) ==
    IF P.repeat_mode = "ALL" /\ P.queue = <<>> /\ P.history # <<>>
    THEN [QueuePutAll(P, RefillSources(P.history)) EXCEPT !.history = <<>>]
    ELSE P

\* _get_next_song after queue.get() returned next_song: the history append.
Dequeued(P) ==
    LET next_song == QueueGet(P.queue)[1]
        P1 == [P EXCEPT !.queue = QueueGet(P.queue)[2], !.fifo = Tail(@)]
    IN  IF P1.repeat_mode = "ALL"
        THEN [P1 EXCEPT !.history = Append(@, HistoryEntry(next_song))]
        ELSE P1

\* _playback_finished (the error, if any, is only reported).
playback_finished(P) ==
    LET P1 == IF P.repeat_mode # "ONE"
                 /\ P.voice_client # 0 /\ ~is_playing(P.voice_client)
              THEN [P EXCEPT !.current = NoSong]
              ELSE P
    IN  [P1 EXCEPT !.next = TRUE]

\* player_loop's lazy-loading trigger.
Trigger(P) ==
    /\ Len(P.queue) < LAZY_LOAD_THRESHOLD
    /\ P.current_playlist_url # 0
    /\ ~P.loading_next_batch

FreeFetches == { f \in Fetches : ft[f].st = "free" }
FreeDestroys == { d \in Destroys : dt[d].st = "free" }
FreshVCs == { v \in VCs : vc[v].conn = "none" }
FreshPlayers == { p \in Players : ~pl[p].exists }
Lowest(S) == CHOOSE x \in S : \A y \in S : x <= y

\* The loop task of p runs again only after the tasks it created have started:
\* the event loop runs what is ready in the order it became ready.
Started(p) == \A f \in Fetches : ~(ft[f].st = "created" /\ ft[f].p = p)

\* The head of an iteration of player_loop: self.next.clear() and the trigger,
\* asyncio.create_task(self._load_next_playlist_batch()).
LoopHead(p) ==
    /\ pl[p].player_task = "top"
    /\ ~pl[p].cancel
    /\ Started(p)
    /\ Trigger(pl[p]) => FreeFetches # {}
    /\ ft' = IF Trigger(pl[p])
             THEN [ft EXCEPT ![Lowest(FreeFetches)] = [FreeFetch EXCEPT !.st = "created", !.p = p]]
             ELSE ft

\* _play_song up to its first await: self.current, self.paused, voice_client.play.
\* play raises ClientException when the client is not connected or already plays.
PlaySong(p, P, song) ==
    LET v == P.voice_client
        P1 == [P EXCEPT !.current = song, !.paused = FALSE, !.skipMark = FALSE]
    IN  IF is_connected(v) /\ vc[v].play = "idle"
        THEN /\ vc' = [vc EXCEPT ![v].play = "playing", ![v].cbto = p]
             /\ pl' = [pl EXCEPT ![p] = [P1 EXCEPT !.player_task = "np_send"]]
        ELSE /\ vc' = vc
             /\ pl' = [pl EXCEPT ![p] = [P1 EXCEPT !.player_task = "err_send"]]

\* A destroy() of player p has been entered and has not returned.
InTeardown(p) == \E e \in Destroys : dt[e].p = p /\ dt[e].st \notin {"free", "done", "aborted", "raised"}

\* destroy() up to its first await (change_presence): stop, clear_queue, current, paused.
\* plf is pl after what the caller did before the call.
DestroyCall(d, p, notify, caller, plf) ==
    LET v == plf[p].voice_client
        pl1 == IF is_playing(v) THEN StopCallbacks(plf, v) ELSE plf
    IN  /\ vc' = IF is_playing(v) THEN StoppedVC(vc, v) ELSE vc
        /\ pl' = [pl1 EXCEPT ![p] =
                    [clear_queue(@) EXCEPT !.current = NoSong, !.paused = FALSE,
                                           !.player_task = IF caller = "loop" THEN "destroy" ELSE @]]
        /\ dt' = [dt EXCEPT ![d] = [st |-> "presence", p |-> p, v |-> 0, notify |-> notify,
                                    caller |-> caller,
                                    overlap |-> InTeardown(p),
                                    did |-> {"clear"} \cup (IF is_playing(v) THEN {"stop"} ELSE {})]]

\* ------------------------------------------------------------ player_loop
\* A loop that treats a lost connection like an empty room and waits.
LoopDisconnectedWaits(p) ==
    /\ LoopHead(p)
    /\ ~is_connected(pl[p].voice_client)
    /\ pl' = [pl EXCEPT ![p].next = FALSE, ![p].player_task = "empty_send"]
    /\ ev' = Ev("disconnected", p, 0)
    /\ UNCHANGED <<music_players, vc, guild_vc, members, dt, cmd, rm, vsu>>

\* The voice client is gone or disconnected: await self.destroy(notify=False).
LoopDisconnected(p) ==
    /\ LoopHead(p)
    /\ ~is_connected(pl[p].voice_client)
    /\ \E d \in FreeDestroys :
         DestroyCall(d, p, FALSE, "loop", [pl EXCEPT ![p].next = FALSE])
    /\ ev' = Ev("disconnected", p, 0)
    /\ UNCHANGED <<music_players, guild_vc, members, cmd, rm, vsu>>

\* No non-bot member: _handle_empty_channel up to its send.
LoopEmptyChannel(p) ==
    /\ LoopHead(p)
    /\ is_connected(pl[p].voice_client)
    /\ ~members
    /\ pl' = [pl EXCEPT ![p].next = FALSE, ![p].player_task = "empty_send"]
    /\ ev' = Quiet
    /\ UNCHANGED <<music_players, vc, guild_vc, members, dt, cmd, rm, vsu>>

\* The notice is sent: asyncio.sleep(IDLE_TIMEOUT) starts.
LoopEmptySent(p) ==
    /\ pl[p].player_task = "empty_send" /\ ~pl[p].cancel /\ Started(p)
    /\ pl' = [pl EXCEPT ![p].player_task = "empty_sleep"]
    /\ ev' = Quiet
    /\ UNCHANGED <<music_players, vc, guild_vc, members, ft, dt, cmd, rm, vsu>>

\* The send of the empty-room notice raises: nothing in _handle_empty_channel or
\* player_loop catches it and the exception ends the loop task.
LoopEmptySendRaised(p) ==
    /\ pl[p].player_task = "empty_send" /\ ~pl[p].cancel /\ Started(p)
    /\ pl' = [pl EXCEPT ![p].player_task = "done"]
    /\ ev' = Ev("send_raised", p, 0)
    /\ UNCHANGED <<music_players, vc, guild_vc, members, ft, dt, cmd, rm, vsu>>

\* IDLE_TIMEOUT elapsed: the re-check of _handle_empty_channel and, back in
\* player_loop, the return or the continue.
LoopEmptyWake(p) ==
    /\ pl[p].player_task = "empty_sleep" /\ ~pl[p].cancel /\ Started(p)
    /\ IF ~is_connected(pl[p].voice_client)
       THEN /\ pl' = [pl EXCEPT ![p].player_task = "done"]
            /\ UNCHANGED <<vc, dt>>
       ELSE IF ~members
       THEN \E d \in FreeDestroys : DestroyCall(d, p, TRUE, "loop", pl)
       ELSE /\ pl' = [pl EXCEPT ![p].player_task = "top"]
            /\ UNCHANGED <<vc, dt>>
    /\ ev' = Quiet
    /\ UNCHANGED <<music_players, guild_vc, members, ft, cmd, rm, vsu>>

\* RepeatMode.ONE with a current song: _get_next_song returns the rebuilt source
\* without awaiting and _play_song starts it.
LoopReplay(p) ==
    /\ LoopHead(p)
    /\ is_connected(pl[p].voice_client)
    /\ members
    /\ pl[p].repeat_mode = "ONE" /\ pl[p].current # NoSong
    /\ pl[p].cb < MaxCb
    /\ PlaySong(p, [pl[p] EXCEPT !.next = FALSE], ReplaySource(pl[p]))
    /\ ev' = Ev("replay", pl[p].current.title, 0)
    /\ UNCHANGED <<music_players, guild_vc, members, dt, cmd, rm, vsu>>

\* Otherwise: the RepeatMode.ALL refill when it applies, then the wait on queue.get().
LoopAwaitQueue(p) ==
    /\ LoopHead(p)
    /\ is_connected(pl[p].voice_client)
    /\ members
    /\ ~(pl[p].repeat_mode = "ONE" /\ pl[p].current # NoSong)
    /\ pl' = [pl EXCEPT ![p] = [Refill([@ EXCEPT !.next = FALSE]) EXCEPT !.player_task = "get"]]
    /\ ev' = IF Refill(pl[p]) # pl[p] THEN Ev("refill", Len(pl[p].history), 0)
                                      ELSE Quiet
    /\ UNCHANGED <<music_players, vc, guild_vc, members, dt, cmd, rm, vsu>>

\* queue.get() returns: history append, then _play_song up to its first await.
LoopGet(p) ==
    /\ pl[p].player_task = "get" /\ ~pl[p].cancel /\ Started(p)
    /\ pl[p].queue # <<>>
    /\ pl[p].cb < MaxCb
    /\ PlaySong(p, Dequeued(pl[p]), QueueGet(pl[p].queue)[1])
    /\ ev' = Ev("dequeue", QueueGet(pl[p].queue)[1].title, 0)
    /\ UNCHANGED <<music_players, guild_vc, members, ft, dt, cmd, rm, vsu>>

\* QUEUE_TIMEOUT elapsed with nothing queued: the notice is being sent.
LoopQueueTimeout(p) ==
    /\ pl[p].player_task = "get" /\ ~pl[p].cancel /\ Started(p)
    /\ pl[p].queue = <<>>
    /\ pl' = [pl EXCEPT ![p].player_task = "timeout_send"]
    /\ ev' = Quiet
    /\ UNCHANGED <<music_players, vc, guild_vc, members, ft, dt, cmd, rm, vsu>>

\* The timeout notice is sent: await self.destroy(notify=False).
LoopTimeoutSent(p) ==
    /\ pl[p].player_task = "timeout_send" /\ ~pl[p].cancel /\ Started(p)
    /\ \E d \in FreeDestroys : DestroyCall(d, p, FALSE, "loop", pl)
    /\ ev' = Quiet
    /\ UNCHANGED <<music_players, guild_vc, members, ft, cmd, rm, vsu>>

\* The send of the timeout notice raises inside the handler of TimeoutError:
\* destroy() is not reached and the exception ends the loop task.
LoopTimeoutSendRaised(p) ==
    /\ pl[p].player_task = "timeout_send" /\ ~pl[p].cancel /\ Started(p)
    /\ pl' = [pl EXCEPT ![p].player_task = "done"]
    /\ ev' = Ev("send_raised", p, 0)
    /\ UNCHANGED <<music_players, vc, guild_vc, members, ft, dt, cmd, rm, vsu>>

\* _play_song: presence updated and the now-playing embed sent; await self.next.wait().
LoopNowPlayingSent(p) ==
    /\ pl[p].player_task = "np_send" /\ ~pl[p].cancel /\ Started(p)
    /\ pl' = [pl EXCEPT ![p].player_task = "wait_next"]
    /\ ev' = Quiet
    /\ UNCHANGED <<music_players, vc, guild_vc, members, ft, dt, cmd, rm, vsu>>

\* _play_song: the presence update or the send raised; the error embed is being sent.
LoopNowPlayingFail(p) ==
    /\ pl[p].player_task = "np_send" /\ ~pl[p].cancel /\ Started(p)
    /\ pl' = [pl EXCEPT ![p].player_task = "err_send"]
    /\ ev' = Quiet
    /\ UNCHANGED <<music_players, vc, guild_vc, members, ft, dt, cmd, rm, vsu>>

\* An except branch that resets the current track without posting self.next.set.
LoopErrSentNoSet(p) ==
    /\ pl[p].player_task = "err_send" /\ ~pl[p].cancel /\ Started(p)
    /\ pl' = [pl EXCEPT ![p].current = NoSong, ![p].paused = FALSE,
                        ![p].player_task = "wait_next"]
    /\ ev' = Quiet
    /\ UNCHANGED <<music_players, vc, guild_vc, members, ft, dt, cmd, rm, vsu>>

\* _play_song's except branch after its send: _reset_current.
LoopErrSent(p) ==
    /\ pl[p].player_task = "err_send" /\ ~pl[p].cancel /\ Started(p)
    /\ pl' = [pl EXCEPT ![p].current = NoSong, ![p].paused = FALSE,
                        ![p].set_pending = TRUE, ![p].player_task = "wait_next"]
    /\ ev' = Quiet
    /\ UNCHANGED <<music_players, vc, guild_vc, members, ft, dt, cmd, rm, vsu>>

\* The self.next.set posted by _reset_current runs.
NextSet(p) ==
    /\ pl[p].set_pending
    /\ pl' = [pl EXCEPT ![p].set_pending = FALSE, ![p].next = TRUE]
    /\ ev' = Quiet
    /\ UNCHANGED <<music_players, vc, guild_vc, members, ft, dt, cmd, rm, vsu>>

\* A loop that starts its next iteration as soon as self.next is set.
LoopNextWakeNoPoll(p) ==
    /\ pl[p].player_task \in {"wait_next", "poll"} /\ ~pl[p].cancel /\ Started(p)
    /\ pl[p].player_task = "wait_next" => pl[p].next
    /\ pl' = [pl EXCEPT ![p].player_task = "top"]
    /\ ev' = Quiet
    /\ UNCHANGED <<music_players, vc, guild_vc, members, ft, dt, cmd, rm, vsu>>

\* self.next.wait() returns; the loop polls until the client neither plays nor is
\* paused, then starts the next iteration.
LoopNextWake(p) ==
    /\ pl[p].player_task \in {"wait_next", "poll"} /\ ~pl[p].cancel /\ Started(p)
    /\ pl[p].player_task = "wait_next" => pl[p].next
    /\ LET v == pl[p].voice_client
           busy == v # 0 /\ (is_playing(v) \/ is_paused(v))
       IN  /\ pl[p].player_task = "poll" => ~busy
           /\ pl' = [pl EXCEPT ![p].player_task = IF busy THEN "poll" ELSE "top"]
    /\ ev' = Quiet
    /\ UNCHANGED <<music_players, vc, guild_vc, members, ft, dt, cmd, rm, vsu>>

\* A loop that swallows the cancellation and starts another iteration.
LoopCancelledCaught(p) ==
    /\ pl[p].cancel
    /\ pl[p].player_task \notin {"none", "done"}
    /\ Started(p)
    /\ pl' = [pl EXCEPT ![p].cancel = FALSE, ![p].player_task = "top"]
    /\ ev' = Quiet
    /\ UNCHANGED <<music_players, vc, guild_vc, members, ft, dt, cmd, rm, vsu>>

\* The cancellation requested by destroy() reaches the suspended loop task: in
\* _get_next_song it is caught and the loop returns, elsewhere it ends the task;
\* a destroy() the loop itself was running is abandoned where it awaited.
LoopCancelled(p) ==
    /\ pl[p].cancel
    /\ pl[p].player_task \notin {"none", "done"}
    /\ Started(p)
    /\ pl' = [pl EXCEPT ![p].cancel = FALSE, ![p].player_task = "done"]
    /\ dt' = [d \in Destroys |->
                IF dt[d].p = p /\ dt[d].caller = "loop" /\ dt[d].st \notin {"free", "done", "aborted", "raised"}
                THEN [dt[d] EXCEPT !.st = "aborted"]
                ELSE dt[d]]
    /\ LET closing == { v \in VCs : \E d \in Destroys :
                          /\ dt[d].p = p /\ dt[d].caller = "loop" /\ dt[d].st = "disconnect"
                          /\ v = pl[p].voice_client }
       IN  /\ vc' = [v \in VCs |-> IF v \in closing THEN [vc[v] EXCEPT !.conn = "closed"] ELSE vc[v]]
           /\ guild_vc' = IF guild_vc \in closing THEN NoVC ELSE guild_vc
    /\ ev' = Quiet
    /\ UNCHANGED <<music_players, members, ft, cmd, rm, vsu>>

\* ------------------------------------------------------------ environment
\* The stream ends by itself: the audio thread posts _playback_finished.
TrackEnds(v) ==
    /\ vc[v].play = "playing"
    /\ vc' = StoppedVC(vc, v)
    /\ pl' = StopCallbacks(pl, v)
    /\ ev' = Quiet
    /\ UNCHANGED <<music_players, guild_vc, members, ft, dt, cmd, rm, vsu>>

\* The stream ends on an error: the audio thread posts _playback_finished with
\* the error, which that callback reports and otherwise ignores.
TrackFails(v) ==
    /\ vc[v].play = "playing"
    /\ vc' = StoppedVC(vc, v)
    /\ pl' = StopCallbacks(pl, v)
    /\ ev' = Ev("stream_error", vc[v].cbto, 0)
    /\ UNCHANGED <<music_players, guild_vc, members, ft, dt, cmd, rm, vsu>>

\* A posted _playback_finished runs on the event loop.
PlaybackFinished(p) ==
    /\ pl[p].cb > 0
    /\ pl' = [pl EXCEPT ![p] = [playback_finished(@) EXCEPT !.cb = @ - 1]]
    /\ ev' = Quiet
    /\ UNCHANGED <<music_players, vc, guild_vc, members, ft, dt, cmd, rm, vsu>>

MemberLeaves ==
    /\ members
    /\ members' = FALSE
    /\ ev' = Quiet
    /\ UNCHANGED <<music_players, pl, vc, guild_vc, ft, dt, cmd, rm, vsu>>

MemberJoins ==
    /\ ~members
    /\ members' = TRUE
    /\ ev' = Quiet
    /\ UNCHANGED <<music_players, pl, vc, guild_vc, ft, dt, cmd, rm, vsu>>

\* ----------------------------------------------------------------- destroy
\* destroy() from its disconnect step on: `await voice_client.disconnect(force=True)`
\* when connected, else straight to the end of the function.  discord.py leaves the
\* connected state at once, stops the stream, and the gateway answers with the
\* voice-state update of the bot leaving.
DestroyFinal(d, plf, vcf, gvc) ==
    LET p == dt[d].p
        last == ~dt[d].notify
    IN  /\ pl' = [plf EXCEPT ![p].voice_client = 0,
                             ![p].player_task = IF dt[d].caller = "loop" /\ last THEN "done" ELSE @]
        /\ vc' = vcf
        /\ guild_vc' = gvc
        /\ music_players' = 0
        /\ dt' = [dt EXCEPT ![d].st = IF last THEN "done" ELSE "notify",
                            ![d].did = @ \cup (IF music_players # 0 THEN {"deregister"} ELSE {})]
        /\ UNCHANGED vsu

DestroyDisconnect(d, plf) ==
    LET p == dt[d].p
        v == plf[p].voice_client
    IN  IF is_connected(v)
        THEN /\ vc' = [vc EXCEPT ![v].conn = "closing", ![v].play = "idle"]
             /\ pl' = StopCallbacks(plf, v)
             /\ dt' = [dt EXCEPT ![d].st = "disconnect", ![d].v = v, ![d].did = @ \cup {"disconnect"}]
             /\ vsu' = TRUE
             /\ UNCHANGED <<music_players, guild_vc>>
        ELSE DestroyFinal(d, plf, vc, guild_vc)

\* change_presence returned (or raised, which is swallowed): cancel the loop task
\* and await it when it is not done.  Called from the loop task itself, cancel()
\* only marks the running task and the await raises at once, which is swallowed.
DestroyPresenceDone(d) ==
    /\ dt[d].st = "presence"
    /\ LET p == dt[d].p
       IN  IF pl[p].player_task \notin {"none", "done"}
           THEN /\ pl' = IF dt[d].caller = "loop" THEN pl ELSE [pl EXCEPT ![p].cancel = TRUE]
                /\ dt' = [dt EXCEPT ![d].st = "await_task", ![d].did = @ \cup {"cancel"}]
                /\ UNCHANGED <<music_players, vc, guild_vc, vsu>>
           ELSE DestroyDisconnect(d, pl)
    /\ ev' = Quiet
    /\ UNCHANGED <<members, ft, cmd, rm>>

\* An await of the loop task that returns only once the task is done, whoever
\* awaits it.
DestroyTaskAwaitedWhenDone(d) ==
    /\ dt[d].st = "await_task"
    /\ pl[dt[d].p].player_task = "done"
    /\ DestroyDisconnect(d, pl)
    /\ ev' = Quiet
    /\ UNCHANGED <<members, ft, cmd, rm>>

\* `await self.player_task` is over.
DestroyTaskAwaited(d) ==
    /\ dt[d].st = "await_task"
    /\ dt[d].caller = "loop" \/ pl[dt[d].p].player_task = "done"
    /\ DestroyDisconnect(d, pl)
    /\ ev' = Quiet
    /\ UNCHANGED <<members, ft, cmd, rm>>

\* disconnect() returned: discord.py dropped the guild's voice client.
DestroyDisconnected(d) ==
    /\ dt[d].st = "disconnect"
    /\ DestroyFinal(d, pl, [vc EXCEPT ![dt[d].v].conn = "closed"], Cleanup(dt[d].v))
    /\ ev' = Quiet
    /\ UNCHANGED <<members, ft, cmd, rm>>

\* disconnect() raised (the gateway or the voice websocket failed): discord.py has
\* dropped the client all the same, and the exception leaves destroy(), which has
\* no handler around the call: voice_client stays set, the registry entry stays,
\* no notice is sent.  When the caller is the loop task, the exception ends it.
DestroyDisconnectRaised(d) ==
    /\ dt[d].st = "disconnect"
    /\ vc' = [vc EXCEPT ![dt[d].v].conn = "closed"]
    /\ guild_vc' = Cleanup(dt[d].v)
    /\ dt' = [dt EXCEPT ![d].st = "raised"]
    /\ pl' = [pl EXCEPT ![dt[d].p].player_task = IF dt[d].caller = "loop" THEN "done" ELSE @]
    /\ ev' = Quiet
    /\ UNCHANGED <<music_players, members, ft, cmd, rm, vsu>>

\* The departure notice is sent (or failed, which is swallowed).
DestroyNotified(d) ==
    /\ dt[d].st = "notify"
    /\ dt' = [dt EXCEPT ![d].st = "done", ![d].did = @ \cup {"notify"}]
    /\ pl' = [pl EXCEPT ![dt[d].p].player_task = IF dt[d].caller = "loop" THEN "done" ELSE @]
    /\ ev' = Quiet
    /\ UNCHANGED <<music_players, vc, guild_vc, members, ft, cmd, rm, vsu>>

\* The stop command.
Stop ==
    /\ music_players # 0
    /\ is_connected(pl[music_players].voice_client)
    /\ \E d \in FreeDestroys : DestroyCall(d, music_players, FALSE, "stop", pl)
    /\ ev' = Quiet
    /\ UNCHANGED <<music_players, guild_vc, members, ft, cmd, rm, vsu>>

\* on_voice_state_update for the bot leaving its channel, with a registered player.
VoiceStateUpdate ==
    /\ vsu
    /\ music_players # 0
    /\ vsu' = FALSE
    /\ \E d \in FreeDestroys : DestroyCall(d, music_players, FALSE, "event", pl)
    /\ ev' = Quiet
    /\ UNCHANGED <<music_players, guild_vc, members, ft, cmd, rm>>

\* on_voice_state_update for the bot leaving, no player registered: nothing to do.
VoiceStateUpdateIdle ==
    /\ vsu
    /\ music_players = 0
    /\ vsu' = FALSE
    /\ ev' = Quiet
    /\ UNCHANGED <<music_players, pl, vc, guild_vc, members, ft, dt, cmd, rm>>

\* The voice connection is lost from outside (kicked, moved out, network).
VoiceDrop(v) ==
    /\ vc[v].conn = "connected"
    /\ vc' = [vc EXCEPT ![v].conn = "closed", ![v].play = "idle"]
    /\ pl' = StopCallbacks(pl, v)
    /\ guild_vc' = Cleanup(v)
    /\ vsu' = TRUE
    /\ ev' = Quiet
    /\ UNCHANGED <<music_players, members, ft, dt, cmd, rm>>

\* ------------------------------------------------- _load_next_playlist_batch
\* The task created by player_loop starts: the guard, then the flag is set and
\* create_source is awaited with the cursor's URL and index as they are now.
FetchStart(f) ==
    /\ ft[f].st = "created"
    /\ LET p == ft[f].p
       IN  IF pl[p].current_playlist_url = 0 \/ pl[p].loading_next_batch
           THEN /\ ft' = [ft EXCEPT ![f] = FreeFetch]
                /\ pl' = pl
           ELSE /\ ft' = [ft EXCEPT ![f] = [st |-> "running", p |-> p,
                                            url |-> pl[p].current_playlist_url,
                                            idx |-> pl[p].next_playlist_index]]
                /\ pl' = [pl EXCEPT ![p].loading_next_batch = TRUE]
    /\ ev' = Quiet
    /\ UNCHANGED <<music_players, vc, guild_vc, members, dt, cmd, rm, vsu>>

\* A loader that moves the cursor by the size of the window it asked for.
BatchLoadedByWindow(P, entries) ==
    LET P1 == IF entries = <<>>
              THEN [P EXCEPT !.current_playlist_url = 0]
              ELSE [QueuePutAll(P, SeqMap(create_ffmpeg_source, entries))
                      EXCEPT !.next_playlist_index = @ + BatchSize]
    IN  [P1 EXCEPT !.loading_next_batch = FALSE]

\* What the task does with the entries create_source returned, and its finally.
BatchLoaded(P, entries) ==
    LET P1 == IF entries = <<>>
              THEN [P EXCEPT !.current_playlist_url = 0]
              ELSE [QueuePutAll(P, SeqMap(create_ffmpeg_source, entries))
                      EXCEPT !.next_playlist_index = @ + Len(entries)]
    IN  [P1 EXCEPT !.loading_next_batch = FALSE]

\* A loader that gives up on a failure without its finally clause.
BatchFailedKeepFlag(P) == [P EXCEPT !.current_playlist_url = 0]

\* What the task does when create_source raised, and its finally.
BatchFailed(P) == [P EXCEPT !.current_playlist_url = 0, !.loading_next_batch = FALSE]

FetchReturns(f, drop) ==
    /\ ft[f].st = "running"
    /\ drop \subseteq Window(ft[f].idx)
    /\ LET p == ft[f].p
           entries == BatchEntries(ft[f].idx, drop)
       IN  /\ pl' = [pl EXCEPT ![p] = BatchLoaded(@, entries)]
           /\ ev' = Ev("batch", p, entries)
    /\ ft' = [ft EXCEPT ![f] = FreeFetch]
    /\ UNCHANGED <<music_players, vc, guild_vc, members, dt, cmd, rm, vsu>>

FetchRaises(f) ==
    /\ ft[f].st = "running"
    /\ pl' = [pl EXCEPT ![ft[f].p] = BatchFailed(@)]
    /\ ft' = [ft EXCEPT ![f] = FreeFetch]
    /\ ev' = Ev("batch_raised", ft[f].p, <<>>)
    /\ UNCHANGED <<music_players, vc, guild_vc, members, dt, cmd, rm, vsu>>

\* ------------------------------------------------------- control commands
\* The registered player whose voice_client is set (pause, resume, repeat, shuffle, clear).
HasPlayer == music_players # 0 /\ pl[music_players].voice_client # 0
\* ... and connected (skip, stop, remove).
HasConnectedPlayer == music_players # 0 /\ is_connected(pl[music_players].voice_client)

\* A skip that leaves the repeat mode alone.
skip_keep(P) == [P EXCEPT !.skipMark = TRUE]

\* The skip command with something playing or paused: voice_client.stop(), then
\* RepeatMode.ONE is switched off.
skip(P) == [P EXCEPT !.repeat_mode = IF @ = "ONE" THEN "OFF" ELSE @, !.skipMark = TRUE]

Skip ==
    /\ HasConnectedPlayer
    /\ LET p == music_players
           v == pl[p].voice_client
       IN  /\ is_playing(v) \/ is_paused(v)
           /\ vc' = StoppedVC(vc, v)
           /\ pl' = [StopCallbacks(pl, v) EXCEPT ![p] = skip(@)]
           /\ ev' = Ev("skip", pl[p].current.title, IF pl[p].repeat_mode = "ONE" THEN 1 ELSE 0)
    /\ UNCHANGED <<music_players, guild_vc, members, ft, dt, cmd, rm, vsu>>

\* A pause that also succeeds on a stream that is already paused.
pause_any(P) == P.voice_client # 0 /\ (is_playing(P.voice_client) \/ is_paused(P.voice_client))

\* MusicPlayer.pause: whether it acts and returns True.
pause(P) == P.voice_client # 0 /\ is_playing(P.voice_client)

\* The pause command: MusicPlayer.pause, then the answer.
Pause ==
    /\ HasPlayer
    /\ LET p == music_players
           v == pl[p].voice_client
       IN  IF pause(pl[p])
           THEN /\ vc' = [vc EXCEPT ![v].play = "paused"]
                /\ pl' = [pl EXCEPT ![p].paused = TRUE]
                /\ ev' = Ev("pause", 0, 1)
           ELSE /\ UNCHANGED <<vc, pl>>
                /\ ev' = Ev("pause", 0, 0)
    /\ UNCHANGED <<music_players, guild_vc, members, ft, dt, cmd, rm, vsu>>

\* A resume that succeeds whenever a stream is there.
resume_any(P) == P.voice_client # 0 /\ vc[P.voice_client].play # "idle"

\* MusicPlayer.resume: whether it acts and returns True.
resume(P) == P.voice_client # 0 /\ is_paused(P.voice_client)

\* The resume command: MusicPlayer.resume, then the answer.
Resume ==
    /\ HasPlayer
    /\ LET p == music_players
           v == pl[p].voice_client
       IN  IF resume(pl[p])
           THEN /\ vc' = [vc EXCEPT ![v].play = "playing"]
                /\ pl' = [pl EXCEPT ![p].paused = FALSE]
                /\ ev' = Ev("resume", 0, 1)
           ELSE /\ UNCHANGED <<vc, pl>>
                /\ ev' = Ev("resume", 0, 0)
    /\ UNCHANGED <<music_players, guild_vc, members, ft, dt, cmd, rm, vsu>>

\* Volumes set_volume is called with: the range of the volume command and beyond.
Volumes == (0 - VolumeSlack) .. (MAX_VOLUME + VolumeSlack)

\* MusicPlayer.set_volume called on the registered player with `volume`; the
\* volume command calls it with volume / 100 for the percents 0 .. 200.
SetVolume(volume) ==
    /\ HasPlayer
    /\ pl' = [pl EXCEPT ![music_players] = set_volume(@, volume)]
    /\ ev' = Ev("volume", volume, set_volume(pl[music_players], volume).volume)
    /\ UNCHANGED <<music_players, vc, guild_vc, members, ft, dt, cmd, rm, vsu>>

\* The repeat command.
ToggleRepeat ==
    /\ HasPlayer
    /\ pl' = [pl EXCEPT ![music_players].repeat_mode = toggle_repeat(@),
                        ![music_players].skipMark = FALSE]
    /\ ev' = Ev("repeat", 0, 0)
    /\ UNCHANGED <<music_players, vc, guild_vc, members, ft, dt, cmd, rm, vsu>>

\* The shuffle command.
Shuffle ==
    /\ HasPlayer
    /\ \E out \in shuffle_queue(pl[music_players]) :
         /\ pl' = [pl EXCEPT ![music_players] = out[1]]
         /\ ev' = Ev("shuffle", Len(pl[music_players].queue), out[2])
    /\ UNCHANGED <<music_players, vc, guild_vc, members, ft, dt, cmd, rm, vsu>>

\* The clear command.
Clear ==
    /\ HasPlayer
    /\ pl' = [pl EXCEPT ![music_players] = clear_queue(@)]
    /\ ev' = Ev("clear", 0, Len(pl[music_players].queue))
    /\ UNCHANGED <<music_players, vc, guild_vc, members, ft, dt, cmd, rm, vsu>>

\* Positions a user may type; app_commands.Range[int, 1] refuses those below 1
\* before the handler runs.
Positions == 0 .. (MaxQueue + 1)
NoRemove == [p |-> 0, position |-> 0]

RemoveRefused(position) ==
    /\ rm = NoRemove
    /\ position < 1
    /\ ev' = Ev("remove", position, 0)
    /\ UNCHANGED <<music_players, pl, vc, guild_vc, members, ft, dt, cmd, rm, vsu>>

\* The remove command up to `await interaction.response.defer()`.
RemoveInvoke(position) ==
    /\ rm = NoRemove
    /\ position >= 1
    /\ HasConnectedPlayer
    /\ rm' = [p |-> music_players, position |-> position]
    /\ ev' = Quiet
    /\ UNCHANGED <<music_players, pl, vc, guild_vc, members, ft, dt, cmd, vsu>>

\* The remove command after the defer: snapshot, bounds checks, pop, drain, refill.
RemoveRun ==
    /\ rm # NoRemove
    /\ LET out == remove(pl[rm.p], rm.position)
       IN  /\ pl' = [pl EXCEPT ![rm.p] = out[1]]
           /\ ev' = Ev("remove", rm.position, out[2])
    /\ rm' = NoRemove
    /\ UNCHANGED <<music_players, vc, guild_vc, members, ft, dt, cmd, vsu>>

\* ------------------------------------------------------------ play command
\* get_player, no player registered, the user in a voice channel: channel.connect().
\* discord.py registers the new voice client for the guild before it awaits.
PlayNew(k) ==
    /\ cmd[k].st = "free"
    /\ music_players = 0
    /\ CanConnect
    /\ FreshVCs # {} /\ FreshPlayers # {}
    /\ LET v == Lowest(FreshVCs)
       IN  /\ vc' = [vc EXCEPT ![v].conn = "connecting"]
           /\ guild_vc' = v
           /\ cmd' = [cmd EXCEPT ![k] = [st |-> "connect", p |-> 0, v |-> v]]
    /\ ev' = Quiet
    /\ UNCHANGED <<music_players, pl, members, ft, dt, rm, vsu>>

\* get_player, no player registered, but discord.py already holds a voice client
\* for the guild: connect() raises ClientException and get_player returns None.
PlayRefused(k) ==
    /\ cmd[k].st = "free"
    /\ music_players = 0
    /\ ~CanConnect
    /\ ev' = Ev("play_refused", k, 0)
    /\ UNCHANGED <<music_players, pl, vc, guild_vc, members, ft, dt, cmd, rm, vsu>>

\* connect() returned: MusicPlayer(...) is constructed (its loop task created) and
\* registered; the command awaits YTDLSource.create_source.
PlayConnected(k) ==
    /\ cmd[k].st = "connect"
    /\ FreshPlayers # {}
    /\ LET v == cmd[k].v
           p == Lowest(FreshPlayers)
       IN  /\ vc' = [vc EXCEPT ![v].conn = "connected"]
           /\ pl' = [pl EXCEPT ![p] = NewPlayer(v)]
           /\ music_players' = p
           /\ cmd' = [cmd EXCEPT ![k] = [st |-> "resolve", p |-> p, v |-> 0]]
    /\ ev' = Quiet
    /\ UNCHANGED <<guild_vc, members, ft, dt, rm, vsu>>

\* connect() raised (timeout): discord.py dropped the voice client; no player.
PlayConnectFailed(k) ==
    /\ cmd[k].st = "connect"
    /\ vc' = [vc EXCEPT ![cmd[k].v].conn = "closed"]
    /\ guild_vc' = Cleanup(cmd[k].v)
    /\ cmd' = [cmd EXCEPT ![k] = FreePlay]
    /\ ev' = Quiet
    /\ UNCHANGED <<music_players, pl, members, ft, dt, rm, vsu>>

\* get_player, a connected player registered: it is returned.
PlayExisting(k) ==
    /\ cmd[k].st = "free"
    /\ HasConnectedPlayer
    /\ cmd' = [cmd EXCEPT ![k] = [st |-> "resolve", p |-> music_players, v |-> 0]]
    /\ ev' = Quiet
    /\ UNCHANGED <<music_players, pl, vc, guild_vc, members, ft, dt, rm, vsu>>

\* get_player, the registered player is not connected and the user is in no voice
\* channel: the failure is reported, then the player destroyed.
PlayReconnectNoChannel(k) ==
    /\ cmd[k].st = "free"
    /\ music_players # 0 /\ ~HasConnectedPlayer
    /\ cmd' = [cmd EXCEPT ![k] = [st |-> "rc_send", p |-> music_players, v |-> 0]]
    /\ ev' = Quiet
    /\ UNCHANGED <<music_players, pl, vc, guild_vc, members, ft, dt, rm, vsu>>

\* A get_player that gives up after the failure message, leaving the player as it is.
PlayReconnectGiveUp(k) ==
    /\ cmd[k].st = "rc_send"
    /\ cmd' = [cmd EXCEPT ![k] = FreePlay]
    /\ ev' = Quiet
    /\ UNCHANGED <<music_players, pl, vc, guild_vc, members, ft, dt, rm, vsu>>

\* The failure message is sent: await player.destroy(notify=False), return None.
PlayReconnectDestroy(k) ==
    /\ cmd[k].st = "rc_send"
    /\ \E d \in FreeDestroys : DestroyCall(d, cmd[k].p, FALSE, "getplayer", pl)
    /\ cmd' = [cmd EXCEPT ![k] = FreePlay]
    /\ ev' = Quiet
    /\ UNCHANGED <<music_players, guild_vc, members, ft, rm, vsu>>

\* get_player, the registered player is not connected, the user is in a channel:
\* the old client, if any, is disconnected first.
PlayReconnect(k) ==
    /\ cmd[k].st = "free"
    /\ music_players # 0 /\ ~HasConnectedPlayer
    /\ cmd' = [cmd EXCEPT ![k] = [st |-> "rc_disc", p |-> music_players,
                                  v |-> pl[music_players].voice_client]]
    /\ ev' = Quiet
    /\ UNCHANGED <<music_players, pl, vc, guild_vc, members, ft, dt, rm, vsu>>

\* The old client is disconnected (discord.py drops it): channel.connect(), which
\* raises when the guild still has another voice client.
PlayReconnectConnect(k) ==
    /\ cmd[k].st = "rc_disc"
    /\ LET old == cmd[k].v
           vc1 == IF old # 0 THEN [vc EXCEPT ![old].conn = "closed", ![old].play = "idle"] ELSE vc
           pl1 == IF old # 0 THEN StopCallbacks(pl, old) ELSE pl
           gvc == IF old # 0 THEN Cleanup(old) ELSE guild_vc
       IN  /\ pl' = pl1
           /\ IF gvc = NoVC /\ FreshVCs # {}
              THEN LET v == Lowest(FreshVCs)
                   IN  /\ vc' = [vc1 EXCEPT ![v].conn = "connecting"]
                       /\ guild_vc' = v
                       /\ cmd' = [cmd EXCEPT ![k].st = "rc_connect", ![k].v = v]
              ELSE /\ vc' = vc1
                   /\ guild_vc' = gvc
                   /\ cmd' = [cmd EXCEPT ![k].st = "rc_send", ![k].v = 0]
    /\ ev' = Quiet
    /\ UNCHANGED <<music_players, members, ft, dt, rm, vsu>>

\* The reconnect succeeded: player.voice_client is replaced, the player returned.
PlayReconnected(k) ==
    /\ cmd[k].st = "rc_connect"
    /\ vc' = [vc EXCEPT ![cmd[k].v].conn = "connected"]
    /\ pl' = [pl EXCEPT ![cmd[k].p].voice_client = cmd[k].v]
    /\ cmd' = [cmd EXCEPT ![k].st = "resolve", ![k].v = 0]
    /\ ev' = Quiet
    /\ UNCHANGED <<music_players, guild_vc, members, ft, dt, rm, vsu>>

\* The reconnect raised: the failure is reported, then the player destroyed.
PlayReconnectFailed(k) ==
    /\ cmd[k].st = "rc_connect"
    /\ vc' = [vc EXCEPT ![cmd[k].v].conn = "closed"]
    /\ guild_vc' = Cleanup(cmd[k].v)
    /\ cmd' = [cmd EXCEPT ![k].st = "rc_send", ![k].v = 0]
    /\ ev' = Quiet
    /\ UNCHANGED <<music_players, pl, members, ft, dt, rm, vsu>>

\* Tracks the session holds: a play command is admitted only below MaxQueue.
Held(P) == Len(P.queue) + Len(P.history)

\* create_source returned a single track: _process_single_track.
PlayTrack(k, t) ==
    /\ cmd[k].st = "resolve"
    /\ Held(pl[cmd[k].p]) < MaxQueue
    /\ pl' = [pl EXCEPT ![cmd[k].p] = QueuePut(@, create_ffmpeg_source(Entry(t)))]
    /\ cmd' = [cmd EXCEPT ![k] = FreePlay]
    /\ ev' = Quiet
    /\ UNCHANGED <<music_players, vc, guild_vc, members, ft, dt, rm, vsu>>

\* _process_playlist on the first batch create_source returned.
process_playlist(P, entries) ==
    QueuePutAll([P EXCEPT !.current_playlist_url = 1,
                          !.next_playlist_index = 1 + Len(entries)],
                SeqMap(create_ffmpeg_source, entries))

\* create_source returned a playlist: its first batch and next_start_index.
PlayPlaylist(k, drop) ==
    /\ cmd[k].st = "resolve"
    /\ drop \subseteq Window(1)
    /\ BatchEntries(1, drop) # <<>>
    /\ Held(pl[cmd[k].p]) + Len(BatchEntries(1, drop)) <= MaxQueue
    /\ pl' = [pl EXCEPT ![cmd[k].p] = process_playlist(@, BatchEntries(1, drop))]
    /\ cmd' = [cmd EXCEPT ![k] = FreePlay]
    /\ ev' = Ev("playlist", cmd[k].p, BatchEntries(1, drop))
    /\ UNCHANGED <<music_players, vc, guild_vc, members, ft, dt, rm, vsu>>

\* The URL of a second playlist, of the same length and contents.
OtherPlaylist == 2

\* create_source returned the first batch of that second playlist.
PlayOtherPlaylist(k, drop) ==
    /\ cmd[k].st = "resolve"
    /\ drop \subseteq Window(1)
    /\ BatchEntries(1, drop) # <<>>
    /\ Held(pl[cmd[k].p]) + Len(BatchEntries(1, drop)) <= MaxQueue
    /\ pl' = [pl EXCEPT ![cmd[k].p] =
                [process_playlist(@, BatchEntries(1, drop)) EXCEPT !.current_playlist_url = OtherPlaylist]]
    /\ cmd' = [cmd EXCEPT ![k] = FreePlay]
    /\ ev' = Ev("playlist", cmd[k].p, BatchEntries(1, drop))
    /\ UNCHANGED <<music_players, vc, guild_vc, members, ft, dt, rm, vsu>>

\* create_source raised or returned None: the error is reported, nothing else.
PlayFailed(k) ==
    /\ cmd[k].st = "resolve"
    /\ cmd' = [cmd EXCEPT ![k] = FreePlay]
    /\ ev' = Quiet
    /\ UNCHANGED <<music_players, pl, vc, guild_vc, members, ft, dt, rm, vsu>>

\* ------------------------------------------------------------ behaviours
\* The bot has started: no player, no voice client, nothing in flight.
Init ==
    /\ music_players = 0
    /\ pl = [p \in Players |-> BlankPlayer]
    /\ vc = [v \in VCs |-> BlankVC]
    /\ guild_vc = 0
    /\ members = TRUE
    /\ ft = [f \in Fetches |-> FreeFetch]
    /\ dt = [d \in Destroys |-> FreeDestroy]
    /\ cmd = [k \in Plays |-> FreePlay]
    /\ rm = NoRemove
    /\ vsu = FALSE
    /\ ev = Quiet

Next ==
    \/ \E p \in Players : LoopDisconnected(p)
    \/ \E p \in Players : LoopEmptyChannel(p)
    \/ \E p \in Players : LoopEmptySent(p)
    \/ \E p \in Players : LoopEmptyWake(p)
    \/ \E p \in Players : LoopReplay(p)
    \/ \E p \in Players : LoopAwaitQueue(p)
    \/ \E p \in Players : LoopGet(p)
    \/ \E p \in Players : LoopQueueTimeout(p)
    \/ \E p \in Players : LoopTimeoutSent(p)
    \/ \E p \in Players : LoopNowPlayingSent(p)
    \/ \E p \in Players : LoopNowPlayingFail(p)
    \/ \E p \in Players : LoopErrSent(p)
    \/ \E p \in Players : NextSet(p)
    \/ \E p \in Players : LoopNextWake(p)
    \/ \E p \in Players : LoopCancelled(p)
    \/ \E p \in Players : PlaybackFinished(p)
    \/ \E v \in VCs : TrackEnds(v)
    \/ \E v \in VCs : TrackFails(v)
    \/ \E p \in Players : LoopEmptySendRaised(p)
    \/ \E p \in Players : LoopTimeoutSendRaised(p)
    \/ \E k \in Plays : \E drop \in SUBSET Window(1) : PlayOtherPlaylist(k, drop)
    \/ \E v \in VCs : VoiceDrop(v)
    \/ MemberLeaves
    \/ MemberJoins
    \/ \E d \in Destroys : DestroyPresenceDone(d)
    \/ \E d \in Destroys : DestroyTaskAwaited(d)
    \/ \E d \in Destroys : DestroyDisconnected(d)
    \/ \E d \in Destroys : DestroyDisconnectRaised(d)
    \/ \E d \in Destroys : DestroyNotified(d)
    \/ Stop
    \/ VoiceStateUpdate
    \/ VoiceStateUpdateIdle
    \/ \E f \in Fetches : FetchStart(f)
    \/ \E f \in Fetches : \E drop \in SUBSET (1 .. (PlaylistLen + BatchSize)) : FetchReturns(f, drop)
    \/ \E f \in Fetches : FetchRaises(f)
    \/ Skip
    \/ Pause
    \/ Resume
    \/ ToggleRepeat
    \/ \E volume \in Volumes : SetVolume(volume)
    \/ Shuffle
    \/ Clear
    \/ \E position \in Positions : RemoveRefused(position)
    \/ \E position \in Positions : RemoveInvoke(position)
    \/ RemoveRun
    \/ \E k \in Plays : PlayNew(k)
    \/ \E k \in Plays : PlayRefused(k)
    \/ \E k \in Plays : PlayConnected(k)
    \/ \E k \in Plays : PlayConnectFailed(k)
    \/ \E k \in Plays : PlayExisting(k)
    \/ \E k \in Plays : PlayReconnectNoChannel(k)
    \/ \E k \in Plays : PlayReconnectDestroy(k)
    \/ \E k \in Plays : PlayReconnect(k)
    \/ \E k \in Plays : PlayReconnectConnect(k)
    \/ \E k \in Plays : PlayReconnected(k)
    \/ \E k \in Plays : PlayReconnectFailed(k)
    \/ \E k \in Plays : \E t \in Titles : PlayTrack(k, t)
    \/ \E k \in Plays : \E drop \in SUBSET Window(1) : PlayPlaylist(k, drop)
    \/ \E k \in Plays : PlayFailed(k)

Spec == Init /\ [][Next]_vars

\* A session in service: player 1 registered, its loop task created, its voice
\* client connected (the state a first play command leaves behind).
InitPlayback ==
    /\ music_players = 1
    /\ pl = [p \in Players |-> IF p = 1 THEN NewPlayer(1) ELSE BlankPlayer]
    /\ vc = [v \in VCs |-> IF v = 1 THEN [BlankVC EXCEPT !.conn = "connected"] ELSE BlankVC]
    /\ guild_vc = 1
    /\ members = TRUE
    /\ ft = [f \in Fetches |-> FreeFetch]
    /\ dt = [d \in Destroys |-> FreeDestroy]
    /\ cmd = [k \in Plays |-> FreePlay]
    /\ rm = NoRemove
    /\ vsu = FALSE
    /\ ev = Quiet

\* The queue of that session: play commands that add single tracks, the loop
\* that consumes them, and the commands that edit the queue.
NextQueue ==
    \/ \E p \in Players : LoopAwaitQueue(p)
    \/ \E p \in Players : LoopGet(p)
    \/ \E p \in Players : LoopNowPlayingSent(p)
    \/ \E p \in Players : LoopNextWake(p)
    \/ \E p \in Players : PlaybackFinished(p)
    \/ \E v \in VCs : TrackEnds(v)
    \/ Shuffle
    \/ Clear
    \/ \E position \in Positions : RemoveRefused(position)
    \/ \E position \in Positions : RemoveInvoke(position)
    \/ RemoveRun
    \/ PlayExisting(1)
    \/ \E t \in Titles : PlayTrack(1, t)
    \/ PlayFailed(1)

SpecQueue == InitPlayback /\ [][NextQueue]_vars

\* Repetition in that session: the loop, the stream, and the repeat, skip, pause
\* and resume commands.
NextRepeat ==
    \/ \E p \in Players : LoopReplay(p)
    \/ \E p \in Players : LoopAwaitQueue(p)
    \/ \E p \in Players : LoopGet(p)
    \/ \E p \in Players : LoopNowPlayingSent(p)
    \/ \E p \in Players : LoopNextWake(p)
    \/ \E p \in Players : PlaybackFinished(p)
    \/ \E v \in VCs : TrackEnds(v)
    \/ Skip
    \/ Pause
    \/ Resume
    \/ ToggleRepeat
    \/ PlayExisting(1)
    \/ \E t \in Titles : PlayTrack(1, t)
    \/ PlayFailed(1)

SpecRepeat == InitPlayback /\ [][NextRepeat]_vars

\* Lazy loading in that session: play commands that install a playlist, the loop
\* that triggers the loader, the loader tasks, and the clear command.
NextLoader ==
    \/ \E p \in Players : LoopAwaitQueue(p)
    \/ \E p \in Players : LoopGet(p)
    \/ \E p \in Players : LoopNowPlayingSent(p)
    \/ \E p \in Players : LoopNextWake(p)
    \/ \E p \in Players : PlaybackFinished(p)
    \/ \E v \in VCs : TrackEnds(v)
    \/ \E f \in Fetches : FetchStart(f)
    \/ \E f \in Fetches : \E drop \in SUBSET (1 .. (PlaylistLen + BatchSize)) : FetchReturns(f, drop)
    \/ \E f \in Fetches : FetchRaises(f)
    \/ Clear
    \/ PlayExisting(1)
    \/ \E drop \in SUBSET Window(1) : PlayPlaylist(1, drop)
    \/ PlayFailed(1)

SpecLoader == InitPlayback /\ [][NextLoader]_vars

\* Teardown of that session: the loop with its timeouts, the room emptying, the
\* connection dropping, the stop command, the voice-state event and destroy().
NextTeardown ==
    \/ \E p \in Players : LoopDisconnected(p)
    \/ \E p \in Players : LoopEmptyChannel(p)
    \/ \E p \in Players : LoopEmptySent(p)
    \/ \E p \in Players : LoopEmptyWake(p)
    \/ \E p \in Players : LoopAwaitQueue(p)
    \/ \E p \in Players : LoopGet(p)
    \/ \E p \in Players : LoopQueueTimeout(p)
    \/ \E p \in Players : LoopTimeoutSent(p)
    \/ \E p \in Players : LoopNowPlayingSent(p)
    \/ \E p \in Players : LoopNextWake(p)
    \/ \E p \in Players : LoopCancelled(p)
    \/ \E p \in Players : PlaybackFinished(p)
    \/ \E v \in VCs : TrackEnds(v)
    \/ \E v \in VCs : VoiceDrop(v)
    \/ MemberLeaves
    \/ MemberJoins
    \/ \E d \in Destroys : DestroyPresenceDone(d)
    \/ \E d \in Destroys : DestroyTaskAwaited(d)
    \/ \E d \in Destroys : DestroyDisconnected(d)
    \/ \E d \in Destroys : DestroyDisconnectRaised(d)
    \/ \E d \in Destroys : DestroyNotified(d)
    \/ Stop
    \/ VoiceStateUpdate
    \/ VoiceStateUpdateIdle
    \/ PlayExisting(1)
    \/ PlayTrack(1, 1)
    \/ PlayFailed(1)

SpecTeardown == InitPlayback /\ [][NextTeardown]_vars

\* The registry from the start of the bot: concurrent play commands with their
\* get_player paths, the loop idling on an empty queue, the connection dropping,
\* the stop command, the voice-state event and destroy().
NextRegistry ==
    \/ \E p \in Players : LoopDisconnected(p)
    \/ \E p \in Players : LoopAwaitQueue(p)
    \/ \E p \in Players : LoopQueueTimeout(p)
    \/ \E p \in Players : LoopTimeoutSent(p)
    \/ \E p \in Players : LoopCancelled(p)
    \/ \E v \in VCs : VoiceDrop(v)
    \/ \E d \in Destroys : DestroyPresenceDone(d)
    \/ \E d \in Destroys : DestroyTaskAwaited(d)
    \/ \E d \in Destroys : DestroyDisconnected(d)
    \/ Stop
    \/ VoiceStateUpdate
    \/ VoiceStateUpdateIdle
    \/ \E k \in Plays : PlayNew(k)
    \/ \E k \in Plays : PlayRefused(k)
    \/ \E k \in Plays : PlayConnected(k)
    \/ \E k \in Plays : PlayConnectFailed(k)
    \/ \E k \in Plays : PlayExisting(k)
    \/ \E k \in Plays : PlayReconnectNoChannel(k)
    \/ \E k \in Plays : PlayReconnectDestroy(k)
    \/ \E k \in Plays : PlayReconnect(k)
    \/ \E k \in Plays : PlayReconnectConnect(k)
    \/ \E k \in Plays : PlayReconnected(k)
    \/ \E k \in Plays : PlayReconnectFailed(k)
    \/ \E k \in Plays : PlayFailed(k)

SpecRegistry == Init /\ [][NextRegistry]_vars

\* ============================================================== properties
\* The player a remove command in flight works on, else the registered player.
RemoveTarget == IF rm # NoRemove THEN rm.p ELSE music_players

\* Number of occurrences of x in the sequence s.
Count(x, s) == Cardinality({ i \in DOMAIN s : s[i] = x })

\* s and t hold the same items the same number of times.
SameMultiset(s, t) ==
    /\ Len(s) = Len(t)
    /\ \A i \in DOMAIN s : Count(s[i], s) = Count(s[i], t)

\* The step is a dequeue by the loop of player p.
IsDequeue(p) == pl[p].player_task = "get" /\ pl'[p].player_task \in {"np_send", "err_send"}

\* C4: tracks are dequeued (and played) in the order they were enqueued, and the
\* snapshot always lists the tracks not yet dequeued in enqueue order.  fifo
\* records the enqueue order: put appends to it, every dequeue drops its oldest
\* entry, and a shuffle, remove or clear restarts it from the queue they leave.
C4_FifoOrder ==
    /\ [][\A p \in Players : IsDequeue(p) => pl'[p].current = Head(pl[p].fifo)]_vars
    /\ [](\A p \in Players : get_queue_items(pl[p]) = pl[p].fifo)

\* A track was dequeued while a different track, enqueued after it, still waits.
C4_Witness ==
    /\ ev.op = "dequeue"
    /\ pl[1].queue # <<>>
    /\ pl[1].queue[1] # pl[1].current
    /\ pl[1].current # NoSong

\* C5: a remove command with 1 <= k <= N on an N-item queue removes exactly the
\* k-th item, reports that item, and keeps the other N - 1 items in order.
C5_RemoveAt ==
    [][ (rm # NoRemove /\ rm' = NoRemove
         /\ rm.position >= 1 /\ rm.position <= Len(pl[rm.p].queue))
        => LET q == pl[rm.p].queue
               k == rm.position
               r == pl'[rm.p].queue
           IN  /\ Len(r) = Len(q) - 1
               /\ \A i \in 1 .. (k - 1) : r[i] = q[i]
               /\ \A i \in k .. (Len(q) - 1) : r[i] = q[i + 1]
               /\ ev' = Ev("remove", k, q[k].title) ]_vars

\* The second of two different tracks was removed and the first is still queued.
C5_Witness ==
    /\ ev.op = "remove" /\ ev.a = 2 /\ ev.r # 0
    /\ pl[1].queue # <<>>
    /\ pl[1].queue[1].title # ev.r

\* C6: a remove command with a position outside [1, N] is rejected and changes
\* nothing of the player: queue, order, current track, cursor, history.
C6_RemoveOutOfRange ==
    [][ (ev'.op = "remove" /\ RemoveTarget # 0
         /\ (ev'.a < 1 \/ ev'.a > Len(pl[RemoveTarget].queue)))
        => (ev'.r = 0 /\ pl' = pl) ]_vars

\* A position past the end of a non-empty queue was rejected.
C6_Witness ==
    /\ ev.op = "remove" /\ ev.r = 0
    /\ pl[1].queue # <<>>
    /\ ev.a > Len(pl[1].queue)

\* C7: shuffle on 0 or 1 items returns 0 and changes nothing; on N >= 2 items it
\* returns N and leaves a permutation of the same multiset of tracks.
C7_Shuffle ==
    [][ (ev'.op = "shuffle" /\ music_players # 0)
        => LET q == pl[music_players].queue
               r == pl'[music_players].queue
           IN  IF Len(q) < 2
               THEN ev'.r = 0 /\ pl' = pl
               ELSE ev'.r = Len(q) /\ SameMultiset(q, r) ]_vars

\* A shuffle of two different tracks came back in the other order.
C7_Witness ==
    /\ ev = Ev("shuffle", 2, 2)
    /\ pl[1].queue[1].title = 2
    /\ pl[1].queue[2].title = 1
    /\ pl[1].fifo = pl[1].queue

\* What identifies a track to its listeners: title and reference URL.
Ref(x) == <<x.title, x.webpage_url>>
Refs(s) == [i \in DOMAIN s |-> Ref(s[i])]

\* C8: under RepeatMode.ONE with a current track, what the loop plays after a
\* completion is the same track descriptor (stream locator, title, reference
\* URL), and the queue is not dequeued.
C8_ReplaySame ==
    [][\A p \in Players :
         (ev'.op = "replay" /\ pl[p].player_task = "top" /\ pl'[p].player_task # "top")
         => /\ pl'[p].current = pl[p].current
            /\ pl'[p].queue = pl[p].queue ]_vars

\* C9: a skip stops the stream, which posts the completion callback, switches
\* RepeatMode.ONE to OFF and leaves any other mode; and a track that was skipped
\* is never replayed (skipMark is set by skip and cleared by the next repeat
\* command or the next track started from the queue).
C9_SkipAdvances ==
    [][\A p \in Players :
         /\ (ev'.op = "skip" /\ p = music_players)
            => /\ ~is_playing(pl[p].voice_client)' /\ ~is_paused(pl[p].voice_client)'
               /\ pl'[p].cb = pl[p].cb + 1
               /\ pl'[p].repeat_mode = IF pl[p].repeat_mode = "ONE" THEN "OFF" ELSE pl[p].repeat_mode
               /\ pl'[p].queue = pl[p].queue
         /\ (ev'.op = "replay" /\ pl[p].player_task = "top" /\ pl'[p].player_task # "top")
            => ~pl[p].skipMark ]_vars

\* A paused track was skipped under RepeatMode.ONE with another track waiting.
C9_Witness ==
    /\ ev.op = "skip" /\ ev.r = 1
    /\ pl[1].repeat_mode = "OFF"
    /\ pl[1].paused
    /\ pl[1].skipMark
    /\ pl[1].cb = 1
    /\ pl[1].queue # <<>>
    /\ vc[1].play = "idle"

\* C10: under RepeatMode.ALL every dequeued track is appended to the history;
\* when the loop finds the queue empty and the history not, the queue becomes
\* the history's tracks in their order and the history becomes empty; and the
\* loop plays what it dequeues in queue order.
C10_RepeatAll ==
    [][\A p \in Players :
         /\ (IsDequeue(p) /\ pl[p].repeat_mode = "ALL")
            => Refs(pl'[p].history) = Append(Refs(pl[p].history), Ref(pl'[p].current))
         /\ (pl[p].player_task = "top" /\ pl'[p].player_task = "get"
             /\ pl[p].repeat_mode = "ALL" /\ pl[p].queue = <<>> /\ pl[p].history # <<>>)
            => /\ Refs(pl'[p].queue) = Refs(pl[p].history)
               /\ pl'[p].history = <<>>
         /\ IsDequeue(p) => Ref(pl'[p].current) = Ref(Head(pl[p].queue)) ]_vars

\* The queue was refilled from a history of two different tracks.
C10_Witness ==
    /\ ev.op = "refill" /\ ev.a = 2
    /\ Len(pl[1].queue) = 2
    /\ pl[1].queue[1].title # pl[1].queue[2].title
    /\ pl[1].history = <<>>

\* The _load_next_playlist_batch tasks of player p that await create_source.
InFlight(p) == { f \in Fetches : ft[f].st = "running" /\ ft[f].p = p }

\* C3: for one session, never two playlist batch fetches in flight at once.
C3_SingleFlight == \A p \in Players : Cardinality(InFlight(p)) <= 1

\* C1: of the destroy() invocations that overlap on one player exactly one runs
\* the teardown; an invocation entered while another is in progress performs
\* none of the teardown steps.
C1_OneTeardown == \A d \in Destroys : dt[d].overlap => dt[d].did = {}

\* An active player: its loop task has not finished and its voice client is connected.
Active(p) ==
    /\ pl[p].exists
    /\ pl[p].player_task \notin {"none", "done"}
    /\ is_connected(pl[p].voice_client)

\* C2: in every reachable state at most one player of the session is active.
C2_AtMostOneActive == Cardinality({ p \in Players : Active(p) }) <= 1

\* A play command was refused a connection while another play command, started
\* with no player registered, is still connecting.
C2_Witness ==
    /\ ev.op = "play_refused"
    /\ music_players = 0
    /\ \E k \in Plays : cmd[k].st = "connect" /\ k # ev.a

\* ------------------------------------------------------------ idle session
\* The session left to itself: the loop with its two timers (IDLE_TIMEOUT in
\* _handle_empty_channel, QUEUE_TIMEOUT in _get_next_song), members coming and
\* going, tracks added, paused and resumed, and the teardown the loop starts.
NextIdle ==
    \/ \E p \in Players : LoopEmptyChannel(p)
    \/ \E p \in Players : LoopEmptySent(p)
    \/ \E p \in Players : LoopEmptyWake(p)
    \/ \E p \in Players : LoopAwaitQueue(p)
    \/ \E p \in Players : LoopGet(p)
    \/ \E p \in Players : LoopQueueTimeout(p)
    \/ \E p \in Players : LoopTimeoutSent(p)
    \/ \E p \in Players : LoopNowPlayingSent(p)
    \/ \E p \in Players : LoopNextWake(p)
    \/ \E p \in Players : LoopCancelled(p)
    \/ \E p \in Players : PlaybackFinished(p)
    \/ \E v \in VCs : TrackEnds(v)
    \/ MemberLeaves
    \/ MemberJoins
    \/ \E d \in Destroys : DestroyPresenceDone(d)
    \/ \E d \in Destroys : DestroyTaskAwaited(d)
    \/ \E d \in Destroys : DestroyDisconnected(d)
    \/ \E d \in Destroys : DestroyNotified(d)
    \/ VoiceStateUpdate
    \/ VoiceStateUpdateIdle
    \/ Pause
    \/ Resume
    \/ PlayExisting(1)
    \/ PlayTrack(1, 1)
    \/ PlayFailed(1)

\* What the event loop and the timers do without anybody asking: a task that can
\* run does run, a timer elapses, a posted callback and a dispatched event are
\* delivered; a stream that plays again and again comes to its end, however often
\* it is paused in between.  Commands and members are free.
LoopSteps ==
    \E p \in Players :
        \/ LoopEmptyChannel(p) \/ LoopEmptySent(p) \/ LoopEmptyWake(p)
        \/ LoopAwaitQueue(p) \/ LoopGet(p) \/ LoopQueueTimeout(p) \/ LoopTimeoutSent(p)
        \/ LoopNowPlayingSent(p) \/ LoopNextWake(p) \/ LoopCancelled(p)

DestroySteps ==
    \E d \in Destroys :
        \/ DestroyPresenceDone(d) \/ DestroyTaskAwaited(d)
        \/ DestroyDisconnected(d) \/ DestroyNotified(d)

SpecIdle ==
    /\ InitPlayback
    /\ [][NextIdle]_vars
    /\ WF_vars(LoopSteps)
    /\ WF_vars(DestroySteps)
    /\ WF_vars(\E p \in Players : PlaybackFinished(p))
    /\ SF_vars(\E v \in VCs : TrackEnds(v))
    /\ WF_vars(VoiceStateUpdate \/ VoiceStateUpdateIdle)

\* C11: a wait of IDLE_TIMEOUT that ends with a member back in the room starts no
\* teardown and the loop goes on; and whenever the room is empty, either a member
\* comes back or the session is torn down (the player leaves the registry).
C11_EmptyRoom ==
    /\ [][\A p \in Players :
            (pl[p].player_task = "empty_sleep" /\ ~pl[p].cancel /\ members
               /\ pl'[p].player_task # "empty_sleep")
            => (pl'[p].player_task = "top" /\ dt' = dt /\ music_players' = music_players)]_vars
    /\ [](~members => <>(members \/ music_players = 0))

\* The teardowns of player p that did something.
Teardowns(p) == { d \in Destroys : dt[d].p = p /\ dt[d].did # {} }

\* C12: when the loop tears the session down after QUEUE_TIMEOUT (its destroy is
\* the one called by the loop with notify = False), that teardown is the only
\* one that runs for the player.
C12_TimeoutTeardownOnce ==
    \A d \in Destroys :
        (dt[d].st # "free" /\ dt[d].caller = "loop" /\ ~dt[d].notify)
        => Teardowns(dt[d].p) = {d}

\* C13: pause() returns True exactly when the voice client is playing; then the
\* client is paused, the paused flag set and nothing else of the player changes
\* (current track, queue, history, cursor); otherwise it returns False and no
\* state changes.
C13_Pause ==
    [][(ev'.op = "pause" /\ music_players # 0)
       => LET p == music_players
              v == pl[p].voice_client
          IN  IF is_playing(v)
              THEN /\ ev'.r = 1
                   /\ vc' = [vc EXCEPT ![v].play = "paused"]
                   /\ pl' = [pl EXCEPT ![p].paused = TRUE]
              ELSE /\ ev'.r = 0
                   /\ vc' = vc /\ pl' = pl]_vars

\* A pause has just succeeded on a track under RepeatMode.ALL with more queued.
C13_Witness ==
    /\ ev = Ev("pause", 0, 1)
    /\ music_players # 0
    /\ is_paused(pl[music_players].voice_client)
    /\ pl[music_players].paused
    /\ pl[music_players].current # NoSong
    /\ pl[music_players].queue # <<>>
    /\ pl[music_players].history # <<>>

\* C14: resume() returns True exactly when the voice client is paused; then the
\* client plays again and the paused flag is cleared; in every other state
\* (playing, idle) it returns False and no state changes.
C14_Resume ==
    [][(ev'.op = "resume" /\ music_players # 0)
       => LET p == music_players
              v == pl[p].voice_client
          IN  IF is_paused(v)
              THEN /\ ev'.r = 1
                   /\ vc' = [vc EXCEPT ![v].play = "playing"]
                   /\ pl' = [pl EXCEPT ![p].paused = FALSE]
              ELSE /\ ev'.r = 0
                   /\ vc' = vc /\ pl' = pl]_vars

\* A resume has just succeeded: the stream plays, the flag is down.
C14_Witness ==
    /\ ev = Ev("resume", 0, 1)
    /\ music_players # 0
    /\ is_playing(pl[music_players].voice_client)
    /\ ~pl[music_players].paused
    /\ pl[music_players].current # NoSong

\* ------------------------------------------------------ clearing a session
\* A session that plays a playlist under the repeat modes and is cleared: the
\* loop, the stream, the loader tasks, and the play, repeat and clear commands.
NextClear ==
    \/ \E p \in Players : LoopReplay(p)
    \/ \E p \in Players : LoopAwaitQueue(p)
    \/ \E p \in Players : LoopGet(p)
    \/ \E p \in Players : LoopNowPlayingSent(p)
    \/ \E p \in Players : LoopNextWake(p)
    \/ \E p \in Players : PlaybackFinished(p)
    \/ \E v \in VCs : TrackEnds(v)
    \/ \E f \in Fetches : FetchStart(f)
    \/ \E f \in Fetches : FetchReturns(f, {})
    \/ ToggleRepeat
    \/ Clear
    \/ PlayExisting(1)
    \/ PlayPlaylist(1, {})
    \/ PlayFailed(1)

SpecClear == InitPlayback /\ [][NextClear]_vars

\* C15: the clear command reports the number of queued tracks, leaves the queue
\* empty, the history empty and the playlist cursor reset (no URL, index 1, so the
\* loop's trigger cannot fire), and touches neither the current track nor the
\* stream.
C15_ClearQueue ==
    [][(ev'.op = "clear" /\ music_players # 0)
       => LET p == music_players
          IN  /\ ev'.r = Len(pl[p].queue)
              /\ pl'[p].queue = <<>>
              /\ pl'[p].history = <<>>
              /\ pl'[p].current_playlist_url = 0
              /\ pl'[p].next_playlist_index = 1
              /\ ~Trigger(pl'[p])
              /\ pl'[p].current = pl[p].current
              /\ pl'[p].paused = pl[p].paused
              /\ pl'[p].repeat_mode = pl[p].repeat_mode
              /\ vc' = vc]_vars

\* A clear has just removed queued tracks and history of a playlist session
\* whose current track goes on playing.
C15_Witness ==
    /\ ev.op = "clear" /\ ev.r >= 1
    /\ music_players # 0
    /\ pl[music_players].repeat_mode = "ALL"
    /\ pl[music_players].next_playlist_index = 1
    /\ pl[music_players].current # NoSong
    /\ is_playing(pl[music_players].voice_client)

\* ------------------------------------------------------------------ volume
\* set_volume applied to the session's player with every volume of Volumes, while
\* a track is added, started and paused.
NextVolume ==
    \/ \E volume \in Volumes : SetVolume(volume)
    \/ \E p \in Players : LoopAwaitQueue(p)
    \/ \E p \in Players : LoopGet(p)
    \/ PlayExisting(1)
    \/ PlayTrack(1, 1)

SpecVolume == InitPlayback /\ [][NextVolume]_vars

\* C16: after set_volume(v) the stored volume is v clamped to [0, MAX_VOLUME] (0
\* below, MAX_VOLUME above), that value is what is returned, and the stored volume
\* of every player lies in [0, MAX_VOLUME] in every reachable state.
C16_VolumeClamped ==
    /\ [][(ev'.op = "volume" /\ music_players # 0)
          => LET v == ev'.a
                 stored == pl'[music_players].volume
             IN  /\ v < 0 => stored = 0
                 /\ v > MAX_VOLUME => stored = MAX_VOLUME
                 /\ (0 <= v /\ v <= MAX_VOLUME) => stored = v
                 /\ ev'.r = stored
                 /\ pl' = [pl EXCEPT ![music_players].volume = stored]]_vars
    /\ [](\A p \in Players : pl[p].volume >= 0 /\ pl[p].volume <= MAX_VOLUME)

\* A volume below zero has just been asked for while a track plays: zero is stored.
C16_Witness ==
    /\ ev.op = "volume" /\ ev.a < 0 /\ ev.r = 0
    /\ music_players # 0
    /\ pl[music_players].volume = 0
    /\ is_playing(pl[music_players].voice_client)

\* The three repeat modes.
RepeatMode == {"OFF", "ALL", "ONE"}

\* C17: every repeat command moves the mode one step along OFF, ALL, ONE, OFF and
\* touches nothing else of the session; three calls of toggle_repeat in a row
\* return to the mode they started from, and from OFF they give ALL, ONE, OFF.
C17_RepeatCycle ==
    /\ [][(ev'.op = "repeat" /\ music_players # 0)
          => LET p == music_players
                 old == pl[p].repeat_mode
                 new == pl'[p].repeat_mode
             IN  /\ old = "OFF" => new = "ALL"
                 /\ old = "ALL" => new = "ONE"
                 /\ old = "ONE" => new = "OFF"
                 /\ pl'[p].queue = pl[p].queue /\ pl'[p].current = pl[p].current
                 /\ pl'[p].history = pl[p].history
                 /\ vc' = vc]_vars
    /\ [](/\ \A m \in RepeatMode : toggle_repeat(toggle_repeat(toggle_repeat(m))) = m
          /\ \A p \in Players : pl[p].repeat_mode \in RepeatMode
          /\ <<toggle_repeat("OFF"), toggle_repeat(toggle_repeat("OFF")),
               toggle_repeat(toggle_repeat(toggle_repeat("OFF")))>> = <<"ALL", "ONE", "OFF">>)

\* The repeat command has just brought the mode back to OFF while a track
\* dequeued under RepeatMode.ALL is still current.
C17_Witness ==
    /\ ev.op = "repeat"
    /\ music_players # 0
    /\ pl[music_players].repeat_mode = "OFF"
    /\ pl[music_players].history # <<>>
    /\ pl[music_players].current # NoSong

C19_BestEffort ==
    \A d \in Destroys :
        /\ dt[d].st # "raised"
        /\ dt[d].st \in {"done", "raised"} => music_players # dt[d].p

\* C20: a player whose destroy() has completed is out of the registry, has an
\* empty queue and history, no playlist cursor, no current track, a finished loop
\* task and no connected voice client, and stays so whatever play commands and
\* batch fetches do afterwards.
C20_DestroyedStaysClean ==
    \A d \in Destroys :
        dt[d].st = "done" =>
            LET P == pl[dt[d].p] IN
            /\ music_players # dt[d].p
            /\ P.queue = <<>>
            /\ P.history = <<>>
            /\ P.current_playlist_url = 0
            /\ P.current = NoSong
            /\ P.player_task \in {"none", "done"}
            /\ ~is_connected(P.voice_client)

\* Play commands whose query never resolves: get_player with its connect, the
\* failing create_source, and the idle loop of whatever player exists, with the
\* teardown its queue timeout starts.
NextUnresolved ==
    \/ \E k \in Plays : PlayNew(k)
    \/ \E k \in Plays : PlayRefused(k)
    \/ \E k \in Plays : PlayConnected(k)
    \/ \E k \in Plays : PlayConnectFailed(k)
    \/ \E k \in Plays : PlayExisting(k)
    \/ \E k \in Plays : PlayFailed(k)
    \/ \E p \in Players : LoopAwaitQueue(p)
    \/ \E p \in Players : LoopQueueTimeout(p)
    \/ \E p \in Players : LoopTimeoutSent(p)
    \/ \E d \in Destroys : DestroyPresenceDone(d)
    \/ \E d \in Destroys : DestroyTaskAwaited(d)
    \/ \E d \in Destroys : DestroyDisconnected(d)

SpecUnresolved == Init /\ [][NextUnresolved]_vars

\* C21: when the query of a play command does not resolve, the command creates no
\* session state; so where no query ever resolves, whenever every play command is
\* over no player is registered, no voice client is connected and no loop task
\* has been started.
C21_FailedResolutionCreatesNothing ==
    (\A k \in Plays : cmd[k].st = "free")
    => /\ music_players = 0
       /\ \A v \in VCs : vc[v].conn # "connected"
       /\ \A p \in Players : ~pl[p].exists /\ pl[p].player_task = "none"

\* The loader tasks player_loop creates for player p in the step taken.
Issued(p) == { f \in Fetches : ft[f].st = "free" /\ ft'[f].st = "created" /\ ft'[f].p = p }

\* The step taken is the head of an iteration of p's loop.
IterationHead(p) == pl[p].player_task = "top" /\ pl'[p].player_task # "top"

\* C22: the head of a loop iteration issues a loader task exactly when the queue
\* holds fewer than LAZY_LOAD_THRESHOLD tracks, a playlist cursor is set and no
\* fetch is in flight, and then it issues one; no other step issues one; and a
\* task that starts fetching asks for the window that begins at the cursor's
\* current index.
C22_LazyTrigger ==
    [][\A p \in Players :
        /\ IterationHead(p)
           => /\ Issued(p) # {} <=> /\ Len(pl[p].queue) < LAZY_LOAD_THRESHOLD
                                    /\ pl[p].current_playlist_url # 0
                                    /\ InFlight(p) = {}
              /\ Cardinality(Issued(p)) <= 1
        /\ ~IterationHead(p) => Issued(p) = {}
        /\ \A f \in Fetches :
              (ft[f].st = "created" /\ ft[f].p = p /\ ft'[f].st = "running")
              => /\ ft'[f].url = pl[p].current_playlist_url
                 /\ ft'[f].idx = pl[p].next_playlist_index]_vars

\* C23: a loader task that got at least one entry appends them all at the tail of
\* the queue in the order returned, moves the cursor's index forward by their
\* number, and leaves the tracks already queued where they were.
C23_BatchAppended ==
    [][\A p \in Players :
        (ev'.op = "batch" /\ ev'.a = p /\ ev'.r # <<>>)
        => /\ pl'[p].queue = pl[p].queue \o SeqMap(create_ffmpeg_source, ev'.r)
           /\ pl'[p].next_playlist_index = pl[p].next_playlist_index + Len(ev'.r)
           /\ Len(ev'.r) <= BatchSize]_vars

\* A batch of two entries has just been appended behind a track already queued.
C23_Witness ==
    /\ ev.op = "batch" /\ Len(ev.r) = 2
    /\ Len(pl[ev.a].queue) > 2

\* C24: a loader task whose create_source raised or returned nothing clears the
\* playlist cursor and the loading flag and leaves the queue as it was; and with
\* no cursor no loader task is issued and none starts fetching.
C24_BatchFailure ==
    [][\A p \in Players :
        /\ (ev'.a = p /\ (ev'.op = "batch_raised" \/ (ev'.op = "batch" /\ ev'.r = <<>>)))
           => /\ pl'[p].current_playlist_url = 0
              /\ ~pl'[p].loading_next_batch
              /\ pl'[p].queue = pl[p].queue
        /\ pl[p].current_playlist_url = 0
           => /\ Issued(p) = {}
              /\ \A f \in Fetches :
                    (ft[f].st = "created" /\ ft[f].p = p) => ft'[f].st # "running"]_vars

\* create_source has just raised in a loader task while a track was queued.
C24_Witness ==
    /\ ev.op = "batch_raised"
    /\ pl[ev.a].queue # <<>>
    /\ pl[ev.a].current_playlist_url = 0 /\ ~pl[ev.a].loading_next_batch

\* Playback that fails in that session: the stream ending on an error, the
\* connection dropping under the loop so that voice_client.play raises, the
\* now-playing message failing; with the teardown a dropped connection leads to.
NextFailure ==
    \/ \E p \in Players : LoopDisconnected(p)
    \/ \E p \in Players : LoopAwaitQueue(p)
    \/ \E p \in Players : LoopGet(p)
    \/ \E p \in Players : LoopQueueTimeout(p)
    \/ \E p \in Players : LoopTimeoutSent(p)
    \/ \E p \in Players : LoopNowPlayingSent(p)
    \/ \E p \in Players : LoopNowPlayingFail(p)
    \/ \E p \in Players : LoopErrSent(p)
    \/ \E p \in Players : NextSet(p)
    \/ \E p \in Players : LoopNextWake(p)
    \/ \E p \in Players : LoopCancelled(p)
    \/ \E p \in Players : PlaybackFinished(p)
    \/ \E v \in VCs : TrackEnds(v)
    \/ \E v \in VCs : TrackFails(v)
    \/ \E v \in VCs : VoiceDrop(v)
    \/ \E d \in Destroys : DestroyPresenceDone(d)
    \/ \E d \in Destroys : DestroyTaskAwaited(d)
    \/ \E d \in Destroys : DestroyDisconnected(d)
    \/ VoiceStateUpdate
    \/ VoiceStateUpdateIdle
    \/ PlayExisting(1)
    \/ \E t \in Titles : PlayTrack(1, t)
    \/ PlayFailed(1)

\* The event loop runs every task that can run and every callback posted to it,
\* a stream that plays comes to an end, and a dispatched event is delivered.
FailureSteps ==
    \E p \in Players :
        \/ LoopDisconnected(p) \/ LoopAwaitQueue(p) \/ LoopGet(p) \/ LoopQueueTimeout(p)
        \/ LoopTimeoutSent(p) \/ LoopNowPlayingSent(p) \/ LoopErrSent(p)
        \/ LoopNextWake(p) \/ LoopCancelled(p)

SpecFailure ==
    /\ InitPlayback
    /\ [][NextFailure]_vars
    /\ WF_vars(FailureSteps)
    /\ WF_vars(DestroySteps)
    /\ WF_vars(\E p \in Players : NextSet(p))
    /\ WF_vars(\E p \in Players : PlaybackFinished(p))
    /\ WF_vars(\E v \in VCs : TrackEnds(v) \/ TrackFails(v))
    /\ WF_vars(VoiceStateUpdate \/ VoiceStateUpdateIdle)

\* The loop of p is at the head of an iteration, or its task is over.
Advanced(p) == pl[p].player_task \in {"top", "done"}

C26_DisconnectedExits ==
    /\ [][\A p \in Players :
            (pl[p].player_task = "top" /\ ~pl[p].cancel /\ pl'[p].player_task # "top"
             /\ ~is_connected(pl[p].voice_client))
            => /\ pl'[p].player_task = "destroy"
               /\ \E d \in Destroys :
                    /\ dt[d].st = "free" /\ dt'[d].st = "presence"
                    /\ dt'[d].p = p /\ dt'[d].caller = "loop" /\ ~dt'[d].notify
               /\ ev'.op # "dequeue"
               /\ \A v \in VCs : vc'[v].play = "playing" => vc[v].play = "playing"]_vars
    /\ [][\A p \in Players :
            pl[p].player_task = "destroy" => pl'[p].player_task \in {"destroy", "done"}]_vars

\* The loop has just found its voice client disconnected and is inside the
\* destroy() it called.
C26_Witness ==
    /\ ev.op = "disconnected"
    /\ pl[ev.a].player_task = "destroy"
    /\ ~is_connected(pl[ev.a].voice_client)
    /\ \E d \in Destroys : dt[d].st = "presence" /\ dt[d].p = ev.a /\ dt[d].caller = "loop"

\* The loop task of p is suspended in the queue wait, in the empty-room sleep or
\* in the wait for the end of the stream.
Suspended(p) == pl[p].player_task \in {"get", "empty_sleep", "wait_next", "poll"}

\* C27: a loop task cancelled while it is suspended in the queue wait, in the
\* empty-room sleep or in the wait for the end of the stream does nothing more
\* than end: it takes no track from the queue, starts no stream, reaches none of
\* the points where it sends a message, and calls no destroy().
C27_CancelledLoopExits ==
    [][\A p \in Players :
        (pl[p].cancel /\ Suspended(p))
        => /\ pl'[p].player_task \in {pl[p].player_task, "done"}
           /\ ~IsDequeue(p)
           /\ \A v \in VCs : vc'[v].play = "playing" => vc[v].play = "playing"
           /\ \A d \in Destroys :
                 (dt[d].st = "free" /\ dt'[d].st # "free" /\ dt'[d].p = p)
                 => dt'[d].caller # "loop"]_vars

\* The loop task has been cancelled by a destroy() called from outside while it
\* waits for the end of a stream; that destroy() awaits the task.
C27_Witness ==
    \E p \in Players :
        /\ pl[p].cancel
        /\ pl[p].player_task = "wait_next"
        /\ pl[p].queue = <<>> /\ pl[p].fifo = <<>>
        /\ \E d \in Destroys : dt[d].p = p /\ dt[d].st = "await_task" /\ dt[d].caller # "loop"

\* The queue under edit: the remove and shuffle commands, the loop that takes
\* tracks from the queue, play commands that add tracks and playlists, and the
\* loader tasks that append batches.
NextEdit ==
    \/ \E p \in Players : LoopAwaitQueue(p)
    \/ \E p \in Players : LoopGet(p)
    \/ \E p \in Players : LoopNowPlayingSent(p)
    \/ \E p \in Players : LoopNextWake(p)
    \/ \E p \in Players : PlaybackFinished(p)
    \/ \E v \in VCs : TrackEnds(v)
    \/ \E f \in Fetches : FetchStart(f)
    \/ \E f \in Fetches : \E drop \in SUBSET (1 .. (PlaylistLen + BatchSize)) : FetchReturns(f, drop)
    \/ Shuffle
    \/ \E position \in Positions : RemoveInvoke(position)
    \/ RemoveRun
    \/ PlayExisting(1)
    \/ \E t \in Titles : PlayTrack(1, t)
    \/ \E drop \in SUBSET Window(1) : PlayPlaylist(1, drop)
    \/ PlayFailed(1)

SpecEdit == InitPlayback /\ [][NextEdit]_vars

\* C28: whatever the interleaving of remove and shuffle commands with the loop
\* and the loader tasks, every step leaves the queue as it was, or takes its head
\* for the loop to play, or appends at its tail, or takes out exactly the track
\* the remove command names, or reorders it; so the tracks consumed and the
\* tracks queued are always the tracks enqueued less the tracks removed.
C28_EditsConserve ==
    [][\A p \in Players :
        LET q == pl[p].queue
            r == pl'[p].queue
        IN  \/ r = q
            \/ IsDequeue(p) /\ r = Tail(q) /\ pl'[p].current = Head(q)
            \/ Len(r) > Len(q) /\ SubSeq(r, 1, Len(q)) = q
            \/ /\ ev'.op = "remove" /\ ev'.r # 0
               /\ \E i \in DOMAIN q : r = ListPop(q, i - 1) /\ q[i].title = ev'.r
            \/ ev'.op = "shuffle" /\ SameMultiset(q, r)]_vars

\* A remove command that deferred before a loader batch arrived has just taken
\* one track out of a queue of three, while a stream plays.
C28_Witness ==
    /\ ev.op = "remove" /\ ev.r # 0
    /\ Len(pl[1].queue) = 2
    /\ pl[1].current # NoSong
    /\ pl[1].next_playlist_index > 1 + BatchSize

\* The teardowns the loop starts by itself in that session: on the queue timeout,
\* on a room that stays empty, on a lost connection; next to the stop command and
\* the voice-state event, which call destroy() from outside.
NextSelfDestroy ==
    \/ \E p \in Players : LoopDisconnected(p)
    \/ \E p \in Players : LoopEmptyChannel(p)
    \/ \E p \in Players : LoopEmptySent(p)
    \/ \E p \in Players : LoopEmptyWake(p)
    \/ \E p \in Players : LoopAwaitQueue(p)
    \/ \E p \in Players : LoopGet(p)
    \/ \E p \in Players : LoopQueueTimeout(p)
    \/ \E p \in Players : LoopTimeoutSent(p)
    \/ \E p \in Players : LoopNowPlayingSent(p)
    \/ \E p \in Players : LoopNextWake(p)
    \/ \E p \in Players : LoopCancelled(p)
    \/ \E p \in Players : PlaybackFinished(p)
    \/ \E v \in VCs : TrackEnds(v)
    \/ \E v \in VCs : VoiceDrop(v)
    \/ MemberLeaves
    \/ MemberJoins
    \/ \E d \in Destroys : DestroyPresenceDone(d)
    \/ \E d \in Destroys : DestroyTaskAwaited(d)
    \/ \E d \in Destroys : DestroyDisconnected(d)
    \/ \E d \in Destroys : DestroyNotified(d)
    \/ Stop
    \/ VoiceStateUpdate
    \/ VoiceStateUpdateIdle
    \/ PlayExisting(1)
    \/ PlayTrack(1, 1)
    \/ PlayFailed(1)

\* The event loop runs every task that can run, timers elapse, posted callbacks
\* and dispatched events are delivered, awaited calls return.
SelfDestroySteps ==
    \E p \in Players :
        \/ LoopDisconnected(p) \/ LoopEmptyChannel(p) \/ LoopEmptySent(p) \/ LoopEmptyWake(p)
        \/ LoopAwaitQueue(p) \/ LoopGet(p) \/ LoopQueueTimeout(p) \/ LoopTimeoutSent(p)
        \/ LoopNowPlayingSent(p) \/ LoopNextWake(p) \/ LoopCancelled(p)

SpecSelfDestroy ==
    /\ InitPlayback
    /\ [][NextSelfDestroy]_vars
    /\ WF_vars(SelfDestroySteps)
    /\ WF_vars(DestroySteps)
    /\ WF_vars(\E p \in Players : PlaybackFinished(p))
    /\ WF_vars(\E v \in VCs : TrackEnds(v))
    /\ WF_vars(VoiceStateUpdate \/ VoiceStateUpdateIdle)

\* The loop task of p has called destroy().
SelfInitiated(p) == \E d \in Destroys : dt[d].st # "free" /\ dt[d].caller = "loop" /\ dt[d].p = p

\* C29: a destroy() the loop task calls itself does not hang on awaiting the task
\* that runs it: the await of the own task returns while that task is not done,
\* and the teardown comes to its end, with the voice client disconnected, the
\* player out of the registry and the loop task over.
C29_SelfDestroyCompletes ==
    /\ [][\A d \in Destroys :
            (dt[d].caller = "loop" /\ dt[d].st = "await_task" /\ dt'[d].st # "await_task"
             /\ ~pl[dt[d].p].cancel)
            => /\ pl[dt[d].p].player_task = "destroy"
               /\ dt'[d].st \in {"disconnect", "notify", "done"}]_vars
    /\ \A p \in Players :
          SelfInitiated(p) ~> /\ music_players # p
                              /\ ~is_connected(pl[p].voice_client)
                              /\ pl[p].player_task = "done"

\* A destroy() the loop task called has run to its end with no other destroy()
\* around: it disconnected the client and took the player out of the registry.
C29_Witness ==
    \E d \in Destroys :
        /\ dt[d].caller = "loop" /\ dt[d].st = "done"
        /\ {"cancel", "disconnect", "deregister"} \subseteq dt[d].did
        /\ pl[dt[d].p].player_task = "done"
        /\ music_players = 0
        /\ \A e \in Destroys : e # d => dt[e].st = "free"

\* The steps of the loop task that wait for no timer: everything but the end of
\* asyncio.sleep(IDLE_TIMEOUT) and the expiry of the queue wait.
UntimedSteps ==
    \E p \in Players :
        \/ LoopEmptyChannel(p) \/ LoopEmptySent(p)
        \/ LoopAwaitQueue(p) \/ LoopGet(p) \/ LoopTimeoutSent(p)
        \/ LoopNowPlayingSent(p) \/ LoopNextWake(p) \/ LoopCancelled(p)

\* The idle session with timeouts as long as one likes: the event loop runs what
\* can run and delivers what was posted or dispatched, but IDLE_TIMEOUT and
\* QUEUE_TIMEOUT need never elapse.
SpecGrace ==
    /\ InitPlayback
    /\ [][NextIdle]_vars
    /\ WF_vars(UntimedSteps)
    /\ WF_vars(DestroySteps)
    /\ WF_vars(\E p \in Players : PlaybackFinished(p))
    /\ SF_vars(\E v \in VCs : TrackEnds(v))
    /\ WF_vars(VoiceStateUpdate \/ VoiceStateUpdateIdle)

\* C30: the empty-room wait ends on a member coming back and the queue wait on a
\* track being queued, without the timeout having to elapse.
C30_WaitsRacedAgainstEvents ==
    \A p \in Players :
        /\ (pl[p].player_task = "empty_sleep" /\ members) ~> (pl[p].player_task # "empty_sleep")
        /\ (pl[p].player_task = "get" /\ pl[p].queue # <<>>) ~> (pl[p].player_task # "get")

\* ------------------------------------------------------------ replayed streams
\* The source play and _process_playlist build for a track when it is enqueued:
\* create_ffmpeg_source of the resolver's entry for it.
AsEnqueued(title) == create_ffmpeg_source(Entry(title))

\* C31: a track replayed under RepeatMode.ONE, and every track put back in the
\* queue from the history under RepeatMode.ALL, is a source equal to the one the
\* track was enqueued with: same stream locator, title and reference URL.
C31_ReplayFromDescriptor ==
    [][\A p \in Players :
         /\ (ev'.op = "replay" /\ pl[p].player_task = "top" /\ pl'[p].player_task # "top")
            => pl'[p].current = AsEnqueued(pl[p].current.title)
         /\ (ev'.op = "refill" /\ pl[p].player_task = "top" /\ pl'[p].player_task = "get")
            => pl'[p].queue = [i \in DOMAIN pl[p].history |-> AsEnqueued(pl[p].history[i].title)]
      ]_vars

\* ------------------------------------------------------- one stream at a time
\* One-track-at-a-time playback in that session: the loop with its replay and
\* its except branch, the stream ending, completion callbacks that run late,
\* and the skip, pause, resume and repeat commands.
NextSink ==
    \/ \E p \in Players : LoopReplay(p)
    \/ \E p \in Players : LoopAwaitQueue(p)
    \/ \E p \in Players : LoopGet(p)
    \/ \E p \in Players : LoopNowPlayingSent(p)
    \/ \E p \in Players : LoopNowPlayingFail(p)
    \/ \E p \in Players : LoopErrSent(p)
    \/ \E p \in Players : NextSet(p)
    \/ \E p \in Players : LoopNextWake(p)
    \/ \E p \in Players : PlaybackFinished(p)
    \/ \E v \in VCs : TrackEnds(v)
    \/ Skip
    \/ Pause
    \/ Resume
    \/ ToggleRepeat
    \/ PlayExisting(1)
    \/ \E t \in Titles : PlayTrack(1, t)
    \/ PlayFailed(1)

SpecSink == InitPlayback /\ [][NextSink]_vars

\* The loop of p calls voice_client.play in this step (_play_song's try block).
CallsPlay(p) ==
    /\ pl[p].player_task \in {"top", "get"}
    /\ pl'[p].player_task \in {"np_send", "err_send"}

\* C32: whenever the loop calls voice_client.play, the client neither plays nor
\* is paused on an earlier stream, so the call is accepted and that stream is the
\* only one of the session.
C32_OneStreamAtATime ==
    [][\A p \in Players :
         CallsPlay(p)
         => /\ ~is_playing(pl[p].voice_client) /\ ~is_paused(pl[p].voice_client)
            /\ pl'[p].player_task = "np_send"
            /\ vc'[pl[p].voice_client].play = "playing"
            /\ vc'[pl[p].voice_client].cbto = p ]_vars

\* A track has just been started while a completion callback of an earlier
\* stream is posted and has not run yet.
C32_Witness ==
    /\ pl[1].player_task = "np_send"
    /\ is_playing(pl[1].voice_client)
    /\ pl[1].cb > 0

\* ------------------------------------------------------ registry ownership
\* The destroy() invocation d deletes the registry entry in this step.
Deregisters(d) == "deregister" \in dt'[d].did /\ "deregister" \notin dt[d].did

\* C33: the registry entry a destroy() deletes is the entry of the player being
\* destroyed, never that of a player registered after it.
C33_DeregistersOwnEntry ==
    [][\A d \in Destroys : Deregisters(d) => music_players = dt[d].p]_vars

\* ------------------------------------------------------- playlist windows
\* The fetch task f returns its batch to the player in this step, the cursor
\* being where the task read it.
Returns(f) ==
    /\ ft[f].st = "running" /\ ft'[f].st = "free"
    /\ ev'.op = "batch" /\ ev'.a = ft[f].p
    /\ pl[ft[f].p].current_playlist_url = ft[f].url
    /\ pl[ft[f].p].next_playlist_index = ft[f].idx

\* C34: the window a fetch will ask for starts after the end of the window the
\* batch before it was taken from, the first batch of the play command included,
\* whatever entries of a window the resolver could not process.
C34_WindowsDisjoint ==
    [][/\ \A f \in Fetches :
            (Returns(f) /\ pl'[ft[f].p].current_playlist_url # 0)
            => pl'[ft[f].p].next_playlist_index >= ft[f].idx + BatchSize
       /\ \A p \in Players :
            (ev'.op = "playlist" /\ ev'.a = p)
            => pl'[p].next_playlist_index >= 1 + BatchSize
      ]_vars

\* ------------------------------------------------- fetches that outlive a clear
\* The fetch task f comes back from create_source in this step.
ComesBack(f) == ft[f].st = "running" /\ ft'[f].st = "free"

\* C35: a batch fetch that comes back to a player whose playlist cursor has been
\* cleared since the fetch was started appends nothing to the queue.
C35_NoAppendAfterClear ==
    [][\A f \in Fetches :
         (ComesBack(f) /\ pl[ft[f].p].current_playlist_url = 0)
         => pl'[ft[f].p].queue = pl[ft[f].p].queue]_vars

\* ------------------------------------------------ cursors that are replaced
\* Lazy loading across two playlists in that session: play commands install the
\* cursor of one or the other while the loop consumes and fetches.
NextCursor ==
    \/ \E p \in Players : LoopAwaitQueue(p)
    \/ \E p \in Players : LoopGet(p)
    \/ \E p \in Players : LoopNowPlayingSent(p)
    \/ \E p \in Players : LoopNextWake(p)
    \/ \E p \in Players : PlaybackFinished(p)
    \/ \E v \in VCs : TrackEnds(v)
    \/ \E f \in Fetches : FetchStart(f)
    \/ \E f \in Fetches : \E drop \in SUBSET (1 .. (PlaylistLen + BatchSize)) : FetchReturns(f, drop)
    \/ \E f \in Fetches : FetchRaises(f)
    \/ PlayExisting(1)
    \/ \E drop \in SUBSET Window(1) : PlayPlaylist(1, drop)
    \/ \E drop \in SUBSET Window(1) : PlayOtherPlaylist(1, drop)
    \/ PlayFailed(1)

SpecCursor == InitPlayback /\ [][NextCursor]_vars

\* C36: a batch fetch that comes back when the cursor installed is that of
\* another playlist than the one it fetched from leaves that cursor as it is:
\* same URL, same index.
C36_OldFetchLeavesNewCursor ==
    [][\A f \in Fetches :
         LET P == pl[ft[f].p] IN
         (ComesBack(f) /\ P.current_playlist_url # 0 /\ P.current_playlist_url # ft[f].url)
         => /\ pl'[ft[f].p].current_playlist_url = P.current_playlist_url
            /\ pl'[ft[f].p].next_playlist_index = P.next_playlist_index]_vars

\* ------------------------------------------------------------ the paused flag
\* C37: self.paused is set only while a current track exists and the voice
\* client is paused on it.
C37_PausedMeansPaused ==
    \A p \in Players :
        pl[p].paused => (pl[p].current # NoSong /\ is_paused(pl[p].voice_client))

\* ------------------------------------------------ enqueuing into a live player
\* The play command k puts what it resolved on the queue of its player in this step.
Enqueues(k) ==
    /\ cmd[k].st = "resolve" /\ cmd'[k].st = "free"
    /\ pl'[cmd[k].p].queue # pl[cmd[k].p].queue

\* A destroy() of player p has been entered, whether or not it has returned.
TeardownBegun(p) == \E d \in Destroys : dt[d].st # "free" /\ dt[d].p = p

\* C38: a play command enqueues only into a player that is in the registry, whose
\* loop task is alive and on which no destroy() has been called.
C38_EnqueueIntoLivePlayer ==
    [][\A k \in Plays :
         Enqueues(k)
         => /\ music_players = cmd[k].p
            /\ pl[cmd[k].p].player_task \notin {"none", "done"}
            /\ ~TeardownBegun(cmd[k].p)]_vars

\* --------------------------------------------------- notices that fail
\* Teardown of that session when the loop's notices can fail to be sent.
NextNotice ==
    \/ \E p \in Players : LoopEmptySendRaised(p)
    \/ \E p \in Players : LoopTimeoutSendRaised(p)
    \/ \E p \in Players : LoopDisconnected(p)
    \/ \E p \in Players : LoopEmptyChannel(p)
    \/ \E p \in Players : LoopEmptySent(p)
    \/ \E p \in Players : LoopEmptyWake(p)
    \/ \E p \in Players : LoopAwaitQueue(p)
    \/ \E p \in Players : LoopGet(p)
    \/ \E p \in Players : LoopQueueTimeout(p)
    \/ \E p \in Players : LoopTimeoutSent(p)
    \/ \E p \in Players : LoopNowPlayingSent(p)
    \/ \E p \in Players : LoopNextWake(p)
    \/ \E p \in Players : LoopCancelled(p)
    \/ \E p \in Players : PlaybackFinished(p)
    \/ \E v \in VCs : TrackEnds(v)
    \/ \E v \in VCs : VoiceDrop(v)
    \/ MemberLeaves
    \/ MemberJoins
    \/ \E d \in Destroys : DestroyPresenceDone(d)
    \/ \E d \in Destroys : DestroyTaskAwaited(d)
    \/ \E d \in Destroys : DestroyDisconnected(d)
    \/ \E d \in Destroys : DestroyDisconnectRaised(d)
    \/ \E d \in Destroys : DestroyNotified(d)
    \/ Stop
    \/ VoiceStateUpdate
    \/ VoiceStateUpdateIdle
    \/ PlayExisting(1)
    \/ PlayTrack(1, 1)
    \/ PlayFailed(1)

SpecNotice == InitPlayback /\ [][NextNotice]_vars

\* C39: a registered player with a connected voice client on which destroy()
\* has not been called has a loop task that has not ended.
C39_RegisteredHasLiveLoop ==
    \A p \in Players :
        (music_players = p /\ is_connected(pl[p].voice_client) /\ ~TeardownBegun(p))
        => pl[p].player_task # "done"

\* ------------------------------------------------------------- progress
\* That session with a member in the room, the connection never lost from
\* outside and the repeat mode left OFF: tracks are added, played, skipped,
\* paused and resumed; the queue timeout or a notice that fails can end the loop.
NextLive ==
    \/ \E p \in Players : LoopAwaitQueue(p)
    \/ \E p \in Players : LoopGet(p)
    \/ \E p \in Players : LoopQueueTimeout(p)
    \/ \E p \in Players : LoopTimeoutSent(p)
    \/ \E p \in Players : LoopTimeoutSendRaised(p)
    \/ \E p \in Players : LoopNowPlayingSent(p)
    \/ \E p \in Players : LoopNowPlayingFail(p)
    \/ \E p \in Players : LoopErrSent(p)
    \/ \E p \in Players : NextSet(p)
    \/ \E p \in Players : LoopNextWake(p)
    \/ \E p \in Players : LoopCancelled(p)
    \/ \E p \in Players : PlaybackFinished(p)
    \/ \E v \in VCs : TrackEnds(v)
    \/ \E d \in Destroys : DestroyPresenceDone(d)
    \/ \E d \in Destroys : DestroyTaskAwaited(d)
    \/ \E d \in Destroys : DestroyDisconnected(d)
    \/ VoiceStateUpdate
    \/ VoiceStateUpdateIdle
    \/ Skip
    \/ Pause
    \/ Resume
    \/ PlayExisting(1)
    \/ PlayTrack(1, 1)
    \/ PlayFailed(1)

\* What the event loop does without anybody asking.
LiveSteps ==
    \E p \in Players :
        \/ LoopAwaitQueue(p) \/ LoopGet(p) \/ LoopQueueTimeout(p) \/ LoopTimeoutSent(p)
        \/ LoopNowPlayingSent(p) \/ LoopErrSent(p) \/ LoopNextWake(p) \/ LoopCancelled(p)

\* A paused stream is resumed.
Resumed == Resume /\ vc' # vc

\* The event loop is fair to its tasks and callbacks, a stream that plays again
\* and again comes to its end, and a stream that stays paused is resumed.
SpecLive ==
    /\ InitPlayback
    /\ [][NextLive]_vars
    /\ WF_vars(LiveSteps)
    /\ WF_vars(DestroySteps)
    /\ WF_vars(\E p \in Players : NextSet(p))
    /\ WF_vars(\E p \in Players : PlaybackFinished(p))
    /\ SF_vars(\E v \in VCs : TrackEnds(v))
    /\ WF_vars(Resumed)
    /\ WF_vars(VoiceStateUpdate \/ VoiceStateUpdateIdle)

\* The loop has just taken the head of the queue to play it.
Taken == ev.op = "dequeue"

\* C40: while the voice client stays connected, a queue that holds tracks does
\* not stay as it is for ever: the loop takes its head to play it, or destroy()
\* empties the queue and disconnects.  Tracks leave in queue order, so every
\* track gets its turn.
C40_QueueDrains ==
    \A p \in Players :
        (pl[p].exists /\ pl[p].queue # <<>>)
        ~> (Taken \/ ~is_connected(pl[p].voice_client))
====
